---- MODULE Spec2Model ----
(***************************************************************************)
(* The project structure scanner of orka (projectOverview tool): the       *)
(* bounded directory walk scanDirectory, the manifest reader, the tech     *)
(* stack inference and the writer of the project base artifact, as a       *)
(* state machine.  Each invocation of analyseProject is a process p; the   *)
(* recursive async walk is an explicit stack of frames, one action per     *)
(* step of the walk.                                                       *)
(***************************************************************************)
EXTENDS Integers, Sequences, FiniteSets, TLC

(***************************************************************************)
(* Strings.  A name is a TLA+ string; Spelling gives its characters so     *)
(* that startsWith, toLowerCase, includes, path.extname and localeCompare  *)
(* are computed from the characters as the runtime computes them.          *)
(***************************************************************************)
Spelling ==
  [ src |-> <<"s","r","c">>,
    components |-> <<"c","o","m","p","o","n","e","n","t","s">>,
    ui |-> <<"u","i">>,
    entities |-> <<"e","n","t","i","t","i","e","s">>,
    docs |-> <<"d","o","c","s">>,
    latest |-> <<"l","a","t","e","s","t">>,
    node_modules |-> <<"n","o","d","e","_","m","o","d","u","l","e","s">>,
    react |-> <<"r","e","a","c","t">>,
    LICENSE |-> <<"L","I","C","E","N","S","E">> ] @@
  ( "index.ts" :> <<"i","n","d","e","x",".","t","s">> @@
    "App.tsx" :> <<"A","p","p",".","t","s","x">> @@
    "x.css" :> <<"x",".","c","s","s">> @@
    "Button.component.tsx" :>
        <<"B","u","t","t","o","n",".","c","o","m","p","o","n","e","n","t",
          ".","t","s","x">> @@
    "entity-components" :>
        <<"e","n","t","i","t","y","-","c","o","m","p","o","n","e","n","t","s">> @@
    "webcomponents" :> <<"w","e","b","c","o","m","p","o","n","e","n","t","s">> @@
    "guide.md" :> <<"g","u","i","d","e",".","m","d">> @@
    "README.md" :> <<"R","E","A","D","M","E",".","m","d">> @@
    "package.json" :> <<"p","a","c","k","a","g","e",".","j","s","o","n">> @@
    "base.json" :> <<"b","a","s","e",".","j","s","o","n">> @@
    "reports" :> <<"r","e","p","o","r","t","s">> @@
    "project-structure.json" :>
        <<"p","r","o","j","e","c","t","-","s","t","r","u","c","t","u","r","e",
          ".","j","s","o","n">> @@
    "pnpm-lock.yaml" :> <<"p","n","p","m","-","l","o","c","k",".","y","a","m","l">> @@
    "yarn.lock" :> <<"y","a","r","n",".","l","o","c","k">> @@
    "package-lock.json" :>
        <<"p","a","c","k","a","g","e","-","l","o","c","k",".","j","s","o","n">> @@
    "bun.lockb" :> <<"b","u","n",".","l","o","c","k","b">> @@
    ".env" :> <<".","e","n","v">> @@
    ".envrc" :> <<".","e","n","v","r","c">> @@
    ".env.local" :> <<".","e","n","v",".","l","o","c","a","l">> @@
    ".git" :> <<".","g","i","t">> @@
    ".orka" :> <<".","o","r","k","a">> @@
    "." :> <<".">> @@
    "/srv/app" :> <<"/","s","r","v","/","a","p","p">> @@
    "Zod" :> <<"Z","o","d">> @@
    "left-pad" :> <<"l","e","f","t","-","p","a","d">> @@
    "typescript" :> <<"t","y","p","e","s","c","r","i","p","t">> @@
    "constructor" :> <<"c","o","n","s","t","r","u","c","t","o","r">> @@
    "TypeScript" :> <<"T","y","p","e","S","c","r","i","p","t">> @@
    " React " :> <<" ","R","e","a","c","t"," ">> @@
    "  " :> <<" "," ">> @@
    "Docker" :> <<"D","o","c","k","e","r">> @@
    " Rust" :> <<" ","R","u","s","t">> )

Names == DOMAIN Spelling

UpperCase == <<"A","B","C","D","E","F","G","H","I","J","K","L","M",
               "N","O","P","Q","R","S","T","U","V","W","X","Y","Z">>
LowerCase == <<"a","b","c","d","e","f","g","h","i","j","k","l","m",
               "n","o","p","q","r","s","t","u","v","w","x","y","z">>
Digits == <<"0","1","2","3","4","5","6","7","8","9">>

IndexOf(seq, c) == IF \E i \in DOMAIN seq : seq[i] = c
                   THEN CHOOSE i \in DOMAIN seq : seq[i] = c
                   ELSE 0

IsUpper(c) == IndexOf(UpperCase, c) # 0

\* String.prototype.toLowerCase, one character and a whole string
lowerChar(c) == IF IsUpper(c) THEN LowerCase[IndexOf(UpperCase, c)] ELSE c
toLowerCase(s) == [i \in DOMAIN s |-> lowerChar(s[i])]

\* String.prototype.startsWith
startsWith(s, prefix) ==
  /\ Len(prefix) <= Len(s)
  /\ SubSeq(s, 1, Len(prefix)) = prefix

\* String.prototype.includes
includes(s, sub) ==
  \E i \in 1..(Len(s) + 1) :
     /\ i + Len(sub) - 1 <= Len(s)
     /\ SubSeq(s, i, i + Len(sub) - 1) = sub

\* the characters joined back into a string
RECURSIVE Join(_)
Join(s) == IF s = <<>> THEN "" ELSE s[1] \o Join(Tail(s))

\* path.extname (posix): from the last "." of the base name to its end; ""
\* when there is no ".", when the only "." is the first character, and for ".."
LastDot(s) == IF \E i \in DOMAIN s : s[i] = "."
              THEN CHOOSE i \in DOMAIN s :
                      s[i] = "." /\ \A j \in DOMAIN s : s[j] = "." => j <= i
              ELSE 0
extname(s) ==
  IF LastDot(s) <= 1 \/ s = <<".", ".">>
  THEN <<>>
  ELSE SubSeq(s, LastDot(s), Len(s))

(***************************************************************************)
(* String.prototype.localeCompare with the default (root/English)          *)
(* collation on the characters file names are built from here: strings     *)
(* are compared first by their primary weights (punctuation < digits <     *)
(* letters, letters case-insensitively), and only when all primary         *)
(* weights agree by case, lower case first.                                *)
(***************************************************************************)
CollationOrder == <<"_", "-", ".">> \o Digits \o LowerCase
\* UTF-16 code unit order of the same characters
CodeUnitOrder == <<"-", ".", "/">> \o Digits \o UpperCase \o <<"_">> \o LowerCase

PrimaryWeight(c) == IndexOf(CollationOrder, lowerChar(c))
TertiaryWeight(c) == IF IsUpper(c) THEN 1 ELSE 0
CodeUnit(c) == IndexOf(CodeUnitOrder, c)

\* -1, 0 or 1: lexicographic comparison of two sequences of numbers
RECURSIVE CompareSeq(_, _)
CompareSeq(a, b) ==
  IF a = <<>> /\ b = <<>> THEN 0
  ELSE IF a = <<>> THEN -1
  ELSE IF b = <<>> THEN 1
  ELSE IF a[1] < b[1] THEN -1
  ELSE IF a[1] > b[1] THEN 1
  ELSE CompareSeq(Tail(a), Tail(b))

Weights(s, W(_)) == [i \in DOMAIN s |-> W(s[i])]

localeCompareChars(a, b) ==
  LET primary == CompareSeq(Weights(a, PrimaryWeight), Weights(b, PrimaryWeight))
  IN  IF primary # 0 THEN primary
      ELSE CompareSeq(Weights(a, TertiaryWeight), Weights(b, TertiaryWeight))

codeUnitCompareChars(a, b) == CompareSeq(Weights(a, CodeUnit), Weights(b, CodeUnit))

LocaleTable == [a \in Names |-> [b \in Names |->
                  localeCompareChars(Spelling[a], Spelling[b])]]
CodeUnitTable == [a \in Names |-> [b \in Names |->
                  codeUnitCompareChars(Spelling[a], Spelling[b])]]

(***************************************************************************)
(* Program constants.                                                      *)
(***************************************************************************)
Undefined == "<undefined>"
\* a JSON value that is a number, where a string was expected
JsonNumber == "<number>"
\* typeof value === "string"
typeofString(value) == value \notin {Undefined, JsonNumber}

DEFAULT_IGNORE ==
  { "node_modules", ".git", ".hg", ".svn", ".turbo", ".next", ".nuxt", ".yarn",
    ".pnpm-store", ".idea", ".vscode", ".DS_Store", "dist", "build", "out",
    "coverage", "tmp", "temp", ".orka" }

EXTENSION_LANGUAGE_MAP ==
  ".ts" :> "TypeScript" @@ ".tsx" :> "TypeScript" @@ ".js" :> "JavaScript" @@
  ".jsx" :> "JavaScript" @@ ".mjs" :> "JavaScript" @@ ".cjs" :> "JavaScript" @@
  ".json" :> "JSON" @@ ".md" :> "Markdown" @@ ".yml" :> "YAML" @@
  ".yaml" :> "YAML" @@ ".env" :> "Configuration" @@ ".toml" :> "TOML" @@
  ".cfg" :> "Configuration" @@ ".ini" :> "Configuration" @@ ".html" :> "HTML" @@
  ".css" :> "CSS" @@ ".scss" :> "SCSS" @@ ".sass" :> "SCSS" @@ ".less" :> "LESS" @@
  ".py" :> "Python" @@ ".rs" :> "Rust" @@ ".go" :> "Go" @@ ".rb" :> "Ruby"

KNOWN_TECH_LABELS ==
  "react" :> "React" @@ "react-dom" :> "React DOM" @@ "next" :> "Next.js" @@
  "vue" :> "Vue" @@ "svelte" :> "Svelte" @@ "angular" :> "Angular" @@
  "express" :> "Express" @@ "koa" :> "Koa" @@ "fastify" :> "Fastify" @@
  "nestjs" :> "NestJS" @@ "hapi" :> "hapi" @@ "vite" :> "Vite" @@
  "webpack" :> "Webpack" @@ "jest" :> "Jest" @@ "vitest" :> "Vitest" @@
  "playwright" :> "Playwright" @@ "cypress" :> "Cypress" @@
  "typescript" :> "TypeScript" @@
  "@modelcontextprotocol/sdk" :> "Model Context Protocol SDK" @@
  "fastmcp" :> "FastMCP" @@ "openai" :> "OpenAI SDK" @@
  "commander" :> "Commander.js" @@ "pino" :> "Pino" @@ "zod" :> "Zod" @@
  "dotenv" :> "dotenv"

NOTABLE_FILES ==
  << "README.md", "CONTRIBUTING.md", "LICENSE", "tsconfig.json", "package.json",
     "pnpm-lock.yaml", "yarn.lock", "package-lock.json", "bun.lockb" >>

COMPONENT_KEYWORDS == << <<"c","o","m","p","o","n","e","n","t">>,
                         <<"c","o","m","p","o","n","e","n","t","s">> >>
ENTITY_KEYWORDS == << <<"e","n","t","i","t","y">>,
                      <<"e","n","t","i","t","i","e","s">> >>

\* matchesKeyword: some keyword is a substring of the lower-cased value
matchesKeyword(value, keywords) ==
  LET normalised == toLowerCase(Spelling[value])
  IN  \E k \in DOMAIN keywords : includes(normalised, keywords[k])

\* Relative paths are sequences of segments, <<"src", "components">> for
\* "src/components"; the separator is "/" whatever path.sep is, which is what
\* normaliseRelativePath establishes.
normaliseRelativePath(value) == value

\* a.name.localeCompare(b.name)
localeCompare(a, b) == LocaleTable[a][b]


\* Array.prototype.sort with a comparator: stable, ascending
sort(seq, Cmp(_, _)) ==
  LET before(j, i) == Cmp(seq[j], seq[i]) < 0 \/ (Cmp(seq[j], seq[i]) = 0 /\ j < i)
      rank(i) == 1 + Cardinality({j \in DOMAIN seq : before(j, i)})
  IN  [k \in 1..Len(seq) |-> seq[CHOOSE i \in DOMAIN seq : rank(i) = k]]

\* Array.prototype.slice(0, limit)
slice(seq, limit) == SubSeq(seq, 1, IF limit < Len(seq) THEN limit ELSE Len(seq))

Range(seq) == {seq[i] : i \in DOMAIN seq}

RECURSIVE Orderings(_)
Orderings(S) ==
  IF S = {} THEN {<<>>}
  ELSE UNION {{<<e>> \o rest : rest \in Orderings(S \ {e})} : e \in S}

(***************************************************************************)
(* State.  The file system is the tree under the scan root: fs maps each   *)
(* existing path (a sequence of names, <<>> the root) to its kind.         *)
(***************************************************************************)
Procs == {1, 2}

VARIABLES
  fs,           \* path -> "directory" | "file" | "symlink"
  unreadable,   \* the directories fs.readdir fails on
  packageFile,  \* what reading and parsing <root>/package.json gives
  artifacts,    \* output file path -> the document stored there
  clock,        \* what new Date() returns next
  args,         \* [p] ProjectOverviewInput, after projectOverviewInputSchema.parse
  pc,           \* [p] where invocation p of analyseProject is
  stack,        \* [p] the active scanDirectory calls, innermost last
  stats,        \* [p] ScanStats
  acc,          \* [p] ScanAccumulator
  tree,         \* [p] the StructureNode scanDirectory returned for the root
  packageJson,  \* [p] the parsed manifest
  overview,     \* [p] what lines 525-597 computed
  result,       \* [p] what analyseProject returned or threw
  reads,        \* [p] the directories fs.readdir was called on
  pending,      \* [p] the document handed to writeJsonSafely
  fileLength,   \* output file path -> how much text the file holds
  loaded,       \* what the reader of the project base got
  orch,         \* [o] where invocation o of createTodoPlan is, and its locals
  disk,         \* state.json and the session files under the output directory
  http          \* [h] where the call of a Context7 fetch helper is

vars == << fs, unreadable, packageFile, artifacts, clock, args, pc, stack, stats,
           acc, tree, packageJson, overview, result, reads, pending, fileLength,
           loaded,
           orch, disk, http >>

Cwd == "/work/project"

\* resolveAbsolutePath: an absolute path is kept, a relative one ("." here)
\* is resolved against process.cwd()
resolveAbsolutePath(base) ==
  IF startsWith(Spelling[base], <<"/">>) THEN base ELSE Cwd

\* path.basename(absolutePath) of a directory of the tree
basename(relativePath) ==
  IF relativePath = <<>> THEN "project" ELSE relativePath[Len(relativePath)]

\* the directory entries of dir, as fs.readdir(..., {withFileTypes: true})
\* reports them: in no particular order
ChildPaths(dir) ==
  {q \in DOMAIN fs : Len(q) = Len(dir) + 1 /\ SubSeq(q, 1, Len(dir)) = dir}
\* variant of the entry type that reports a link as what it points to
DirentFollowingLinks(q) ==
  [ name |-> q[Len(q)],
    kind |-> IF fs[q] = "symlink" /\ \E r \in DOMAIN fs : Len(r) > Len(q) /\ SubSeq(r, 1, Len(q)) = q
             THEN "directory" ELSE IF fs[q] = "symlink" THEN "file" ELSE fs[q] ]

Dirent(q) == [name |-> q[Len(q)], kind |-> fs[q]]
readdir(dir) == Orderings({Dirent(q) : q \in ChildPaths(dir)})
readdirFails(dir) ==
  dir \in unreadable \/ dir \notin DOMAIN fs \/ fs[dir] # "directory"

\* pathExists(path.join(rootDirectory, name))
pathExists(q) == q \in DOMAIN fs

\* variant of shouldIgnoreEntry without the test of the relative path
shouldIgnoreEntryByName(name, relativePath, options) ==
  IF ~options.includeHidden /\ startsWith(Spelling[name], <<".">>) THEN TRUE
  ELSE name \in DEFAULT_IGNORE \/ <<name>> \in options.ignore

shouldIgnoreEntry(name, relativePath, options) ==
  IF ~options.includeHidden /\ startsWith(Spelling[name], <<".">>) THEN TRUE
  ELSE IF name \in DEFAULT_IGNORE \/ <<name>> \in options.ignore THEN TRUE
  ELSE IF relativePath \in options.ignore THEN TRUE
  ELSE FALSE

\* variants of the sort of line 271: the order readdir gave, and UTF-16
\* code-unit order
sortEntriesKeepsOrder(dirEntries) == dirEntries

sortEntriesByCodeUnit(dirEntries) ==
  LET before(a, b) == CodeUnitTable[a.name][b.name] IN sort(dirEntries, before)

\* scanDirectory, lines 271-283: what the loop over the entries starts from
sortEntries(dirEntries) ==
  sort(dirEntries, LAMBDA a, b : localeCompare(a.name, b.name))

filterEntries(sorted, relativePath, options) ==
  SelectSeq(sorted, LAMBDA entry :
     ~shouldIgnoreEntry(entry.name,
                        normaliseRelativePath(Append(relativePath, entry.name)),
                        options))

\* variant of lines 280-281 that keeps every filtered entry
limitEntriesUncapped(filtered, options) == filtered

limitEntries(filtered, options) ==
  IF Len(filtered) > options.maxEntriesPerDirectory
  THEN slice(filtered, options.maxEntriesPerDirectory)
  ELSE filtered

Frame(dirEntries, relativePath, depth, options) ==
  LET sorted == sortEntries(dirEntries)
      filtered == filterEntries(sorted, relativePath, options)
  IN  [ relativePath |-> relativePath,
        depth |-> depth,
        truncatedByLimit |-> Len(filtered) > options.maxEntriesPerDirectory,
        limited |-> limitEntries(filtered, options),
        index |-> 1,
        children |-> <<>> ]

\* variant of the leaf that does not carry the truncation mark
TruncatedLeafUnmarked(relativePath) ==
  [ name |-> basename(relativePath),
    path |-> IF relativePath = <<>> THEN <<".">> ELSE relativePath,
    type |-> "directory",
    truncated |-> FALSE ]

\* the node of lines 263-268 and of lines 304-309
TruncatedLeaf(relativePath) ==
  [ name |-> basename(relativePath),
    path |-> IF relativePath = <<>> THEN <<".">> ELSE relativePath,
    type |-> "directory",
    truncated |-> TRUE ]

\* variant of line 347 that marks a directory whenever a child directory is
\* itself cut short
truncatedByDepthPropagated(frame, options) ==
  \E i \in DOMAIN frame.children :
     /\ frame.children[i].type = "directory"
     /\ frame.children[i].truncated

\* lines 347-355
truncatedByDepth(frame, options) ==
  /\ \E i \in DOMAIN frame.limited : frame.limited[i].kind = "directory"
  /\ frame.depth + 1 >= options.maxDepth

\* variant of lines 349-355 whose mark leaves the cap out
DirectoryNodeByDepthOnly(frame, options) ==
  [ name |-> basename(frame.relativePath),
    path |-> IF frame.relativePath = <<>> THEN <<".">> ELSE frame.relativePath,
    type |-> "directory",
    children |-> frame.children,
    truncated |-> truncatedByDepth(frame, options) ]

DirectoryNode(frame, options) ==
  [ name |-> basename(frame.relativePath),
    path |-> IF frame.relativePath = <<>> THEN <<".">> ELSE frame.relativePath,
    type |-> "directory",
    children |-> frame.children,
    truncated |-> frame.truncatedByLimit \/ truncatedByDepth(frame, options) ]

\* variant of lines 311-316 that gives a directory one tag at most
classifyExclusive(accumulator, name, relativeChildPath) ==
  [ accumulator EXCEPT
      !.componentDirectories =
          IF matchesKeyword(name, COMPONENT_KEYWORDS)
          THEN @ \cup {relativeChildPath} ELSE @,
      !.entityDirectories =
          IF /\ matchesKeyword(name, ENTITY_KEYWORDS)
             /\ ~matchesKeyword(name, COMPONENT_KEYWORDS)
          THEN @ \cup {relativeChildPath} ELSE @ ]

\* lines 311-316
classify(accumulator, name, relativeChildPath) ==
  [ accumulator EXCEPT
      !.componentDirectories =
          IF matchesKeyword(name, COMPONENT_KEYWORDS)
          THEN @ \cup {relativeChildPath} ELSE @,
      !.entityDirectories =
          IF matchesKeyword(name, ENTITY_KEYWORDS)
          THEN @ \cup {relativeChildPath} ELSE @ ]

\* variant of the warning that names the scan root instead of the directory
readWarningAtRoot(relativePath) == [kind |-> "readdir", path |-> <<>>]

readWarning(relativePath) == [kind |-> "readdir", path |-> relativePath]

ScanOptions(a) ==
  [ maxDepth |-> a.maxDepth,
    maxEntriesPerDirectory |-> a.maxEntriesPerDirectory,
    includeHidden |-> a.includeHidden,
    ignore |-> {normaliseRelativePath(item) : item \in a.ignore} ]

Top(p) == stack[p][Len(stack[p])]
Entry(p) == Top(p).limited[Top(p).index]
ChildPath(p) == normaliseRelativePath(Append(Top(p).relativePath, Entry(p).name))

\* children.push(node) in the innermost call, and on to its next entry
Push(stk, node) ==
  [stk EXCEPT ![Len(stk)].children = Append(@, node),
              ![Len(stk)].index = @ + 1]


(***************************************************************************)
(* The walk: scanDirectory.                                                *)
(***************************************************************************)
\* variant of lines 331-335 without the rule for environment files
fileExtensionBySuffix(name) ==
  LET extensionWithDot == toLowerCase(extname(Spelling[name]))
  IN  IF startsWith(extensionWithDot, <<".">>) THEN extensionWithDot ELSE <<>>

\* lines 331-336: the extension of a plain file, with its dot; <<>> for none
fileExtension(name) ==
  LET extensionWithDot == toLowerCase(extname(Spelling[name]))
      orEnv == IF extensionWithDot = <<>> /\
                  startsWith(Spelling[name], <<".","e","n","v">>)
               THEN <<".","e","n","v">> ELSE extensionWithDot
  IN  IF startsWith(orEnv, <<".">>) THEN orEnv ELSE <<>>

extensionKey(name) ==
  IF fileExtension(name) = <<>> THEN "<none>" ELSE Join(fileExtension(name))

\* variant of line 337 that counts only the first file of an extension
countExtensionOnce(extensions, key) ==
  IF \E i \in DOMAIN extensions : extensions[i].extension = key
  THEN extensions
  ELSE Append(extensions, [extension |-> key, count |-> 1])

\* line 337 on the insertion-ordered record stats.extensions
countExtension(extensions, key) ==
  IF \E i \in DOMAIN extensions : extensions[i].extension = key
  THEN [i \in DOMAIN extensions |->
          IF extensions[i].extension = key
          THEN [extensions[i] EXCEPT !.count = @ + 1] ELSE extensions[i]]
  ELSE Append(extensions, [extension |-> key, count |-> 1])

FileNode(name, relativeChildPath) ==
  IF fileExtension(name) = <<>>
  THEN [name |-> name, path |-> relativeChildPath, type |-> "file"]
  ELSE [name |-> name, path |-> relativeChildPath, type |-> "file",
        extension |-> Join(Tail(fileExtension(name)))]

SymlinkNode(name, relativeChildPath) ==
  [name |-> name, path |-> relativeChildPath, type |-> "symlink"]

\* variant of the root checks without the isDirectory test of line 493
rootErrorAcceptsFiles ==
  IF ~pathExists(<<>>) THEN "not accessible" ELSE ""

\* lines 486-495: what is wrong with the root, "" when nothing is
rootError ==
  IF ~pathExists(<<>>) THEN "not accessible"
  ELSE IF fs[<<>>] # "directory" THEN "not a directory"
  ELSE ""

\* analyseProject, lines 482-512: the root checks and the call of
\* scanDirectory on the root (lines 255-283 of that call)
BeginAnalyse(p) ==
  /\ pc[p] = "start"
  /\ LET rootDirectory == resolveAbsolutePath(args[p].rootDirectory)
         options == ScanOptions(args[p])
     IN  IF rootError # ""
         THEN /\ pc' = [pc EXCEPT ![p] = "failed"]
              /\ result' = [result EXCEPT ![p] =
                    [ status |-> "threw",
                      error |-> rootError,
                      path |-> rootDirectory ]]
              /\ UNCHANGED << stack, stats, acc, tree, reads >>
         ELSE /\ stats' = [stats EXCEPT ![p].totalDirectories = @ + 1]
              /\ reads' = [reads EXCEPT ![p] = @ \cup {<<>>}]
              /\ result' = result
              /\ IF readdirFails(<<>>)
                 THEN /\ acc' = [acc EXCEPT ![p].warnings =
                                    Append(@, readWarning(<<>>))]
                      /\ tree' = [tree EXCEPT ![p] = TruncatedLeaf(<<>>)]
                      /\ pc' = [pc EXCEPT ![p] = "manifest"]
                      /\ stack' = stack
                 ELSE /\ \E dirEntries \in readdir(<<>>) :
                           stack' = [stack EXCEPT ![p] =
                                       <<Frame(dirEntries, <<>>, 0, options)>>]
                      /\ pc' = [pc EXCEPT ![p] = "walk"]
                      /\ UNCHANGED << acc, tree >>
  /\ UNCHANGED << fs, unreadable, packageFile, artifacts, clock, args,
                  packageJson, overview, pending,
                  fileLength, loaded,
                  orch, disk, http >>

AtEntry(p, kind) ==
  /\ pc[p] = "walk"
  /\ Top(p).index <= Len(Top(p).limited)
  /\ Entry(p).kind = kind

\* line 292: whether the directory found at depth is scanned in turn
\* variant of line 292 that goes one level deeper
recursesAtCeiling(depth, options) == depth + 1 <= options.maxDepth

recurses(depth, options) == depth + 1 < options.maxDepth

\* lines 291-301: a directory above the depth limit is scanned in turn
EnterDirectory(p) ==
  /\ AtEntry(p, "directory")
  /\ recurses(Top(p).depth, ScanOptions(args[p]))
  /\ stats' = [stats EXCEPT ![p].totalDirectories = @ + 1]
  /\ reads' = [reads EXCEPT ![p] = @ \cup {ChildPath(p)}]
  /\ IF readdirFails(ChildPath(p))
     THEN /\ acc' = [acc EXCEPT ![p] =
                classify([@ EXCEPT !.warnings = Append(@, readWarning(ChildPath(p)))],
                         Entry(p).name, ChildPath(p))]
          /\ stack' = [stack EXCEPT ![p] = Push(@, TruncatedLeaf(ChildPath(p)))]
     ELSE /\ \E dirEntries \in readdir(ChildPath(p)) :
               stack' = [stack EXCEPT ![p] =
                  Append(@, Frame(dirEntries, ChildPath(p), Top(p).depth + 1,
                                  ScanOptions(args[p])))]
          /\ acc' = acc
  /\ UNCHANGED << fs, unreadable, packageFile, artifacts, clock, args, pc, tree,
                  packageJson, overview, result, pending,
                  fileLength, loaded,
                  orch, disk, http >>

\* variant of lines 302-317 without the count of line 303
TruncateDirectoryUncounted(p) ==
  /\ AtEntry(p, "directory")
  /\ ~recurses(Top(p).depth, ScanOptions(args[p]))
  /\ stack' = [stack EXCEPT ![p] = Push(@, TruncatedLeaf(ChildPath(p)))]
  /\ acc' = [acc EXCEPT ![p] = classify(@, Entry(p).name, ChildPath(p))]
  /\ UNCHANGED << fs, unreadable, packageFile, artifacts, clock, args, pc, tree,
                  packageJson, overview, result, reads, pending,
                  fileLength, loaded, stats,
                  orch, disk, http >>

\* lines 302-317: a directory at the depth limit
TruncateDirectory(p) ==
  /\ AtEntry(p, "directory")
  /\ ~recurses(Top(p).depth, ScanOptions(args[p]))
  /\ stats' = [stats EXCEPT ![p].totalDirectories = @ + 1]
  /\ stack' = [stack EXCEPT ![p] = Push(@, TruncatedLeaf(ChildPath(p)))]
  /\ acc' = [acc EXCEPT ![p] = classify(@, Entry(p).name, ChildPath(p))]
  /\ UNCHANGED << fs, unreadable, packageFile, artifacts, clock, args, pc, tree,
                  packageJson, overview, result, reads, pending,
                  fileLength, loaded,
                  orch, disk, http >>

\* lines 320-328
VisitSymlink(p) ==
  /\ AtEntry(p, "symlink")
  /\ stats' = [stats EXCEPT ![p].totalFiles = @ + 1]
  /\ stack' = [stack EXCEPT ![p] = Push(@, SymlinkNode(Entry(p).name, ChildPath(p)))]
  /\ UNCHANGED << fs, unreadable, packageFile, artifacts, clock, args, pc, acc,
                  tree, packageJson, overview, result, reads, pending,
                  fileLength, loaded,
                  orch, disk, http >>

\* lines 330-344
VisitFile(p) ==
  /\ AtEntry(p, "file")
  /\ stats' = [stats EXCEPT
        ![p].totalFiles = @ + 1,
        ![p].extensions = countExtension(@, extensionKey(Entry(p).name))]
  /\ stack' = [stack EXCEPT ![p] = Push(@, FileNode(Entry(p).name, ChildPath(p)))]
  /\ UNCHANGED << fs, unreadable, packageFile, artifacts, clock, args, pc, acc,
                  tree, packageJson, overview, result, reads, pending,
                  fileLength, loaded,
                  orch, disk, http >>

\* lines 347-355, and in the caller lines 301 and 311-317 or line 512
ReturnDirectory(p) ==
  /\ pc[p] = "walk"
  /\ Top(p).index > Len(Top(p).limited)
  /\ LET node == DirectoryNode(Top(p), ScanOptions(args[p]))
         callers == SubSeq(stack[p], 1, Len(stack[p]) - 1)
     IN  IF callers = <<>>
         THEN /\ tree' = [tree EXCEPT ![p] = node]
              /\ stack' = [stack EXCEPT ![p] = <<>>]
              /\ pc' = [pc EXCEPT ![p] = "manifest"]
              /\ acc' = acc
         ELSE /\ stack' = [stack EXCEPT ![p] = Push(callers, node)]
              /\ acc' = [acc EXCEPT ![p] =
                    classify(@, basename(Top(p).relativePath), Top(p).relativePath)]
              /\ UNCHANGED << tree, pc >>
  /\ UNCHANGED << fs, unreadable, packageFile, artifacts, clock, args, stats,
                  packageJson, overview, result, reads, pending,
                  fileLength, loaded,
                  orch, disk, http >>


(***************************************************************************)
(* The manifest, the languages and the tech stack.                         *)
(***************************************************************************)
\* String.prototype.trim
RECURSIVE trimStart(_)
trimStart(s) == IF s # <<>> /\ s[1] = " " THEN trimStart(Tail(s)) ELSE s
RECURSIVE trimEnd(_)
trimEnd(s) == IF s # <<>> /\ s[Len(s)] = " "
              THEN trimEnd(SubSeq(s, 1, Len(s) - 1)) ELSE s
trim(value) == Join(trimEnd(trimStart(Spelling[value])))

\* Set.prototype.add on a Set kept in insertion order
setAdd(set, value) ==
  IF \E i \in DOMAIN set : set[i] = value THEN set ELSE Append(set, value)
RECURSIVE addAll(_, _)
addAll(set, values) ==
  IF values = <<>> THEN set ELSE addAll(setAdd(set, values[1]), Tail(values))

\* The parsed manifest is a record of the members it has; dependencies,
\* devDependencies and scripts are sequences of [name, value] members in the
\* order of the file.  No parsed manifest (packageJson undefined) has none.
NoPackageJson == <<>>

\* packageJson?.dependencies and the like: a record field of the manifest
field(pkg, key, default) == IF key \in DOMAIN pkg THEN pkg[key] ELSE default

\* lines 358-379
RECURSIVE tallyLanguages(_, _)
tallyLanguages(entries, languageCounts) ==
  IF entries = <<>> THEN languageCounts
  ELSE LET extension == entries[1].extension
           language == IF extension \in DOMAIN EXTENSION_LANGUAGE_MAP
                       THEN EXTENSION_LANGUAGE_MAP[extension] ELSE Undefined
           counted ==
             IF \E i \in DOMAIN languageCounts : languageCounts[i].language = language
             THEN [i \in DOMAIN languageCounts |->
                     IF languageCounts[i].language = language
                     THEN [languageCounts[i] EXCEPT !.count = @ + entries[1].count]
                     ELSE languageCounts[i]]
             ELSE Append(languageCounts,
                         [language |-> language, count |-> entries[1].count])
       IN  IF extension = "<none>" \/ language = Undefined
           THEN tallyLanguages(Tail(entries), languageCounts)
           ELSE tallyLanguages(Tail(entries), counted)

\* variant of the comparator of lines 378 and 544 that puts small counts first
byCountAscending(a, b) == a.count - b.count

byCountDescending(a, b) == b.count - a.count

deriveLanguages(extensionCounts) ==
  sort(tallyLanguages(extensionCounts, <<>>), byCountDescending)

\* variant of lines 537-543 in which a manual label replaces a detected entry
RECURSIVE mergeManualLanguagesOverwriting(_, _)
mergeManualLanguagesOverwriting(languageMap, manualLanguages) ==
  IF manualLanguages = <<>> THEN languageMap
  ELSE LET trimmed == trim(manualLanguages[1])
           zeroed == [i \in DOMAIN languageMap |->
                        IF languageMap[i].language = trimmed
                        THEN [language |-> trimmed, count |-> 0]
                        ELSE languageMap[i]]
       IN  IF trimmed = ""
           THEN mergeManualLanguagesOverwriting(languageMap, Tail(manualLanguages))
           ELSE IF \E i \in DOMAIN languageMap : languageMap[i].language = trimmed
           THEN mergeManualLanguagesOverwriting(zeroed, Tail(manualLanguages))
           ELSE mergeManualLanguagesOverwriting(
                   Append(languageMap, [language |-> trimmed, count |-> 0]),
                   Tail(manualLanguages))

\* lines 532-544
RECURSIVE mergeManualLanguages(_, _)
mergeManualLanguages(languageMap, manualLanguages) ==
  IF manualLanguages = <<>> THEN languageMap
  ELSE LET trimmed == trim(manualLanguages[1])
       IN  IF trimmed = "" \/
              \E i \in DOMAIN languageMap : languageMap[i].language = trimmed
           THEN mergeManualLanguages(languageMap, Tail(manualLanguages))
           ELSE mergeManualLanguages(
                   Append(languageMap, [language |-> trimmed, count |-> 0]),
                   Tail(manualLanguages))

mergedLanguages(extensionCounts, manualLanguages) ==
  sort(mergeManualLanguages(deriveLanguages(extensionCounts), manualLanguages),
       byCountDescending)

\* lines 381-391 and 393-401
byName(a, b) == localeCompare(a.name, b.name)
extractDependencies(record) ==
  sort([i \in DOMAIN record |->
          [name |-> record[i].name, version |-> record[i].value]], byName)
extractScripts(record) ==
  sort([i \in DOMAIN record |->
          [name |-> record[i].name, command |-> record[i].value]], byName)

selectTop(items, limit) == IF Len(items) > limit THEN slice(items, limit) ELSE items

\* KNOWN_TECH_LABELS[key]: a property read on an object literal finds the
\* object's own members and, for other keys, what Object.prototype provides
ObjectPrototypeKeys ==
  { "constructor", "__proto__", "toString", "toLocaleString", "valueOf",
    "hasOwnProperty", "isPrototypeOf", "propertyIsEnumerable",
    "__defineGetter__", "__defineSetter__", "__lookupGetter__",
    "__lookupSetter__" }
Inherited(key) == "[Object.prototype." \o key \o "]"
knownTechLabel(key) ==
  IF key \in DOMAIN KNOWN_TECH_LABELS THEN KNOWN_TECH_LABELS[key]
  ELSE IF key \in ObjectPrototypeKeys THEN Inherited(key)
  ELSE Undefined

\* lines 424-430
RECURSIVE addKnownLabels(_, _)
addKnownLabels(stackSet, depNames) ==
  IF depNames = <<>> THEN stackSet
  ELSE LET key == Join(toLowerCase(Spelling[depNames[1]]))
           label == knownTechLabel(key)
       IN  addKnownLabels(IF label # Undefined THEN setAdd(stackSet, label)
                          ELSE stackSet,
                          Tail(depNames))

\* lines 406-433
deriveTechStack(dependencies, devDependencies, languages) ==
  LET languageNames == [i \in DOMAIN languages |-> languages[i].language]
      withLanguages == addAll(<<>>, languageNames)
      all == dependencies \o devDependencies
      depNames == addAll(<<>>, [i \in DOMAIN all |-> all[i].name])
      withNode == IF Len(depNames) > 0 THEN setAdd(withLanguages, "Node.js")
                  ELSE withLanguages
  IN  addKnownLabels(withNode, depNames)

\* lines 547-552
manualEntries(manualTechStack) ==
  SelectSeq([i \in DOMAIN manualTechStack |-> trim(manualTechStack[i])],
            LAMBDA entry : entry # "")
techStackOf(autoTechStack, manualTechStack) ==
  addAll(addAll(<<>>, autoTechStack), manualEntries(manualTechStack))

\* lines 435-455
LockFiles == << [file |-> "pnpm-lock.yaml", label |-> "pnpm"],
                [file |-> "yarn.lock", label |-> "yarn"],
                [file |-> "package-lock.json", label |-> "npm"],
                [file |-> "bun.lockb", label |-> "bun"] >>
\* variant that looks for the lock files in the opposite order
detectPackageManagerLastLock(pkg) ==
  IF /\ typeofString(field(pkg, "packageManager", Undefined))
     /\ field(pkg, "packageManager", Undefined) # ""
  THEN pkg.packageManager
  ELSE IF \E i \in DOMAIN LockFiles : pathExists(<<LockFiles[i].file>>)
  THEN LockFiles[CHOOSE i \in DOMAIN LockFiles :
                    /\ pathExists(<<LockFiles[i].file>>)
                    /\ \A j \in (i + 1)..Len(LockFiles) :
                          ~pathExists(<<LockFiles[j].file>>)].label
  ELSE Undefined

detectPackageManager(pkg) ==
  IF /\ typeofString(field(pkg, "packageManager", Undefined))
     /\ field(pkg, "packageManager", Undefined) # ""
  THEN pkg.packageManager
  ELSE IF \E i \in DOMAIN LockFiles : pathExists(<<LockFiles[i].file>>)
  THEN LockFiles[CHOOSE i \in DOMAIN LockFiles :
                    /\ pathExists(<<LockFiles[i].file>>)
                    /\ \A j \in 1..(i - 1) : ~pathExists(<<LockFiles[j].file>>)].label
  ELSE Undefined

\* lines 457-468
collectNotableFiles == SelectSeq(NOTABLE_FILES, LAMBDA fileName : pathExists(<<fileName>>))

\* Array.from(set): the members in some order
RECURSIVE setToSeq(_)
setToSeq(set) ==
  IF set = {} THEN <<>>
  ELSE LET member == CHOOSE member \in set : TRUE
       IN  <<member>> \o setToSeq(set \ {member})

\* Array.from(set).sort(): ascending by the UTF-16 code units of "a/b/c"
RECURSIVE pathChars(_)
pathChars(q) ==
  IF q = <<>> THEN <<>>
  ELSE IF Len(q) = 1 THEN Spelling[q[1]]
  ELSE Spelling[q[1]] \o <<"/">> \o pathChars(Tail(q))
sortPaths(set) ==
  sort(setToSeq(set),
       LAMBDA a, b : codeUnitCompareChars(pathChars(a), pathChars(b)))

\* lines 556-562
primaryDirectories(root) ==
  LET children == IF "children" \in DOMAIN root THEN root.children ELSE <<>>
      directories == SelectSeq(children, LAMBDA child : child.type = "directory")
  IN  [i \in DOMAIN directories |->
         [ name |-> directories[i].name,
           path |-> directories[i].path,
           truncated |-> IF "truncated" \in DOMAIN directories[i]
                         THEN directories[i].truncated ELSE FALSE ]]


(***************************************************************************)
(* analyseProject after the walk.                                          *)
(***************************************************************************)
\* variant of lines 516-522 without the pathExists guard
readPackageJsonUnguarded ==
  IF packageFile.state = "json"
  THEN [packageJson |-> packageFile.value, failed |-> FALSE]
  ELSE [packageJson |-> NoPackageJson, failed |-> TRUE]

\* lines 516-522: the manifest is read only when it exists, and a failure
\* of readFile or JSON.parse is caught
readPackageJson ==
  IF ~pathExists(<<"package.json">>)
  THEN [packageJson |-> NoPackageJson, failed |-> FALSE]
  ELSE IF packageFile.state = "json"
  THEN [packageJson |-> packageFile.value, failed |-> FALSE]
  ELSE [packageJson |-> NoPackageJson, failed |-> TRUE]

manifestWarning == [kind |-> "package.json", path |-> <<"package.json">>]

\* lines 514-523
ReadManifest(p) ==
  /\ pc[p] = "manifest"
  /\ packageJson' = [packageJson EXCEPT ![p] = readPackageJson.packageJson]
  /\ acc' = [acc EXCEPT ![p].warnings =
               IF readPackageJson.failed THEN Append(@, manifestWarning) ELSE @]
  /\ pc' = [pc EXCEPT ![p] = "assemble"]
  /\ UNCHANGED << fs, unreadable, packageFile, artifacts, clock, args, stack,
                  stats, tree, overview, result, reads, pending,
                  fileLength, loaded,
                  orch, disk, http >>

\* lines 525-587
Overview(p) ==
  LET pkg == packageJson[p]
      dependencies == extractDependencies(field(pkg, "dependencies", <<>>))
      devDependencies == extractDependencies(field(pkg, "devDependencies", <<>>))
      languages == mergedLanguages(stats[p].extensions, args[p].manualLanguages)
      autoTechStack == deriveTechStack(dependencies, devDependencies, languages)
  IN  [ rootDirectory |-> resolveAbsolutePath(args[p].rootDirectory),
        projectName |-> field(pkg, "name", basename(<<>>)),
        description |-> IF args[p].projectDescription # Undefined
                        THEN args[p].projectDescription
                        ELSE field(pkg, "description", Undefined),
        version |-> field(pkg, "version", Undefined),
        packageManager |-> detectPackageManager(pkg),
        languages |-> languages,
        techStack |-> techStackOf(autoTechStack, args[p].manualTechStack),
        primaryDirectories |-> primaryDirectories(tree[p]),
        notableFiles |-> collectNotableFiles,
        scripts |-> selectTop(extractScripts(field(pkg, "scripts", <<>>)), 12),
        dependencies |-> selectTop(dependencies, 16),
        devDependencies |-> selectTop(devDependencies, 16),
        componentDirectories |-> selectTop(sortPaths(acc[p].componentDirectories), 20),
        entityDirectories |-> selectTop(sortPaths(acc[p].entityDirectories), 20) ]

Assemble(p) ==
  /\ pc[p] = "assemble"
  /\ overview' = [overview EXCEPT ![p] = Overview(p)]
  /\ pc' = [pc EXCEPT ![p] = "persist"]
  /\ UNCHANGED << fs, unreadable, packageFile, artifacts, clock, args, stack,
                  stats, acc, tree, packageJson, result, reads, pending,
                  fileLength, loaded,
                  orch, disk, http >>

\* lines 589-597
persistedOptions(p) ==
  [ maxDepth |-> args[p].maxDepth,
    maxEntriesPerDirectory |-> args[p].maxEntriesPerDirectory,
    includeHidden |-> args[p].includeHidden,
    ignore |-> sortPaths(ScanOptions(args[p]).ignore),
    manualTechStack |-> args[p].manualTechStack,
    manualLanguages |-> args[p].manualLanguages,
    projectDescription |-> args[p].projectDescription ]

\* the object of lines 599-615
Document(p) ==
  [ generatedAt |-> clock,
    rootDirectory |-> overview[p].rootDirectory,
    options |-> persistedOptions(p),
    projectName |-> overview[p].projectName,
    description |-> overview[p].description,
    packageManager |-> overview[p].packageManager,
    languages |-> overview[p].languages,
    techStack |-> overview[p].techStack,
    primaryDirectories |-> overview[p].primaryDirectories,
    componentDirectories |-> overview[p].componentDirectories,
    entityDirectories |-> overview[p].entityDirectories,
    notableFiles |-> overview[p].notableFiles,
    scripts |-> overview[p].scripts,
    tree |-> tree[p],
    warnings |-> acc[p].warnings ]

\* path.join(outputDirectory, structureFileName), relative to process.cwd()
structureFilePath(a) == Append(a.outputDirectory, a.structureFileName)

\* writeFileSafely: mkdir(parentDir, {recursive: true}), then writeFile.  The
\* file shows in the scanned tree when the root is the working directory.
writeFileSafely(a) ==
  IF resolveAbsolutePath(a.rootDirectory) # Cwd THEN fs
  ELSE LET target == structureFilePath(a)
           parents == {SubSeq(target, 1, k) : k \in 0..(Len(target) - 1)}
       IN  [q \in DOMAIN fs \cup parents \cup {target} |->
              IF q = target THEN "file"
              ELSE IF q \in DOMAIN fs THEN fs[q] ELSE "directory"]

\* what an output file holds once fs.open has truncated it
EmptyFile == [exists |-> TRUE, empty |-> TRUE]

\* How much text JSON.stringify gives a document, in entries: one for the
\* scalar members together and one for every element of a list and every
\* node of the tree.  generatedAt has a fixed width, and two documents of the
\* same entries are taken to be of the same length.
RECURSIVE nodeLength(_)
nodeLength(node) ==
  IF "children" \notin DOMAIN node \/ node.children = <<>> THEN 1
  ELSE LET RECURSIVE total(_)
           total(children) ==
             IF children = <<>> THEN 0
             ELSE nodeLength(children[1]) + total(Tail(children))
       IN  1 + total(node.children)

serialisedLength(document) ==
  LET entries(key) == IF key \in DOMAIN document THEN Len(document[key]) ELSE 0
  IN  1 + entries("languages") + entries("techStack")
        + entries("primaryDirectories") + entries("componentDirectories")
        + entries("entityDirectories") + entries("notableFiles")
        + entries("scripts") + entries("warnings")
        + (IF "tree" \in DOMAIN document THEN nodeLength(document.tree) ELSE 0)

\* how much text a file holds that nobody is writing
textLength(content) ==
  IF "exists" \notin DOMAIN content THEN serialisedLength(content)
  ELSE IF content.exists /\ "empty" \notin DOMAIN content THEN 1
  ELSE 0

\* lines 599-615 and writeFileSafely, lines 17-23: the document is built and
\* serialised, the parent directory made, and fs.writeFile opens the file
\* with flag "w", which empties it
Persist(p) ==
  /\ pc[p] = "persist"
  /\ pending' = [pending EXCEPT ![p] = Document(p)]
  /\ clock' = clock + 1
  /\ fs' = writeFileSafely(args[p])
  /\ artifacts' = [artifacts EXCEPT ![structureFilePath(args[p])] = EmptyFile]
  /\ fileLength' = [fileLength EXCEPT ![structureFilePath(args[p])] = 0]
  /\ pc' = [pc EXCEPT ![p] = "write"]
  /\ UNCHANGED << unreadable, packageFile, args, stack, stats, acc, tree,
                  packageJson, overview, result, reads, loaded,
                  orch, disk, http >>

\* writeFileSafely, line 23, and lines 617-629: fs.writeFile writes the text
\* from offset 0 of its own descriptor, over whatever the file holds by then,
\* and analyseProject returns
WriteArtifact(p) ==
  /\ pc[p] = "write"
  /\ artifacts' = [artifacts EXCEPT ![structureFilePath(args[p])] = pending[p]]
  /\ fileLength' = [fileLength EXCEPT ![structureFilePath(args[p])] =
        IF @ > serialisedLength(pending[p]) THEN @
        ELSE serialisedLength(pending[p])]
  /\ result' = [result EXCEPT ![p] =
        [ status |-> "returned",
          overview |-> overview[p],
          generatedAt |-> pending[p].generatedAt,
          structureFilePath |-> structureFilePath(args[p]),
          warnings |-> acc[p].warnings ]]
  /\ pc' = [pc EXCEPT ![p] = "done"]
  /\ UNCHANGED << fs, unreadable, packageFile, clock, args, stack, stats, acc,
                  tree, packageJson, overview, reads, pending, loaded,
                  orch, disk, http >>

(***************************************************************************)
(* Inputs: the trees scanned, the manifests and the tool arguments.        *)
(***************************************************************************)
MaxDepth == 3
MaxEntries == 3

ShapeMissing == <<>>
ShapeRootIsFile == <<>> :> "file"
ShapeDeep ==
  <<>> :> "directory" @@ <<"README.md">> :> "file" @@ <<"src">> :> "directory" @@
  <<"src", "index.ts">> :> "file" @@ <<"src", "components">> :> "directory" @@
  <<"src", "components", "App.tsx">> :> "file" @@
  <<"src", "components", "ui">> :> "directory" @@
  <<"src", "components", "ui", "x.css">> :> "file"
ShapeFlat ==
  <<>> :> "directory" @@ <<".env">> :> "file" @@ <<".git">> :> "directory" @@
  <<"LICENSE">> :> "file" @@ <<"latest">> :> "symlink"
\* environment files, in the root and beneath it
ShapeEnv ==
  <<>> :> "directory" @@ <<".env">> :> "file" @@ <<".envrc">> :> "file" @@
  <<".env.local">> :> "file" @@ <<"src">> :> "directory" @@
  <<"src", ".env">> :> "file" @@ <<"src", "index.ts">> :> "file"
ShapeMixed ==
  <<>> :> "directory" @@ <<"README.md">> :> "file" @@ <<"docs">> :> "directory" @@
  <<"docs", "guide.md">> :> "file" @@ <<"node_modules">> :> "directory" @@
  <<"node_modules", "react">> :> "directory" @@ <<"src">> :> "directory" @@
  <<"src", "entities">> :> "directory" @@ <<"src", "index.ts">> :> "file"

\* the example project: src/index.ts, src/Button.component.tsx, node_modules/
ShapeButton ==
  <<>> :> "directory" @@ <<"src">> :> "directory" @@
  <<"src", "index.ts">> :> "file" @@
  <<"src", "Button.component.tsx">> :> "file" @@
  <<"node_modules">> :> "directory"
\* twenty-one directories with a component-like name, three to a directory
ComponentNames == {"components", "entity-components", "webcomponents"}
ShapeComponents ==
  [ q \in {<<>>} \cup {<<a>> : a \in ComponentNames}
          \cup {<<a, b>> : a \in ComponentNames, b \in ComponentNames}
          \cup {<<a, b, "components">> : a \in ComponentNames, b \in ComponentNames}
      |-> "directory" ]

\* a directory, a file and a symbolic link to a directory, whose content
\* shows beneath the link
ShapeLinked ==
  <<>> :> "directory" @@ <<"README.md">> :> "file" @@ <<"latest">> :> "symlink" @@
  <<"latest", "index.ts">> :> "file" @@
  <<"src">> :> "directory" @@ <<"src", "index.ts">> :> "file"

PkgAbsent == [state |-> "absent"]
PkgMalformed == [state |-> "malformed"]
PkgUnreadable == [state |-> "unreadable"]
PkgReact ==
  [ state |-> "json",
    value |-> [ name |-> "orka", description |-> "planner", version |-> "1.0.0",
                dependencies |-> << [name |-> "react", value |-> "18.0.0"] >>,
                scripts |-> << [name |-> "src", value |-> "tsc"],
                               [name |-> "docs", value |-> "typedoc"] >> ] ]
PkgTooling ==
  [ state |-> "json",
    value |-> [ name |-> "orka", packageManager |-> "pnpm@9",
                dependencies |-> << [name |-> "left-pad", value |-> "1.3.0"] >>,
                devDependencies |-> << [name |-> "typescript", value |-> "5.0.0"],
                                       [name |-> "Zod", value |-> "3.0.0"] >> ] ]
PkgReactOnly ==
  [ state |-> "json",
    value |-> [ dependencies |-> << [name |-> "react", value |-> "18.0.0"] >> ] ]
PkgBare == [ state |-> "json", value |-> [ name |-> "orka" ] ]
PkgConstructor ==
  [ state |-> "json",
    value |-> [ name |-> "orka",
                dependencies |-> << [name |-> "constructor", value |-> "1.0.0"] >> ] ]

\* manifests whose packageManager is the empty string, and a number
PkgEmptyManager ==
  [ state |-> "json", value |-> [ name |-> "orka", packageManager |-> "" ] ]
PkgNumberManager ==
  [ state |-> "json", value |-> [ name |-> "orka", packageManager |-> JsonNumber ] ]

\* manifests whose name and description, and whose script, are numbers
PkgNumberName ==
  [ state |-> "json",
    value |-> [ name |-> JsonNumber, description |-> JsonNumber ] ]
PkgNumberScript ==
  [ state |-> "json",
    value |-> [ name |-> "orka",
                scripts |-> << [name |-> "src", value |-> JsonNumber] >> ] ]

PackageFiles == { PkgAbsent, PkgMalformed, PkgUnreadable, PkgReact, PkgTooling,
                  PkgNumberName, PkgNumberScript,
                  PkgBare, PkgConstructor }

\* projectOverviewInputSchema: the defaults of maxDepth and
\* maxEntriesPerDirectory
DefaultMaxDepth == 3
DefaultMaxEntries == 60

\* what the output file may hold before a scan: nothing, or a document
StaleDocument == [generatedAt |-> 0, rootDirectory |-> "/elsewhere"]
NoDocument == [exists |-> FALSE]
\* a document without rootDirectory, one whose directory node has an empty
\* children array, the JSON text null, text that is no JSON, and a file that
\* cannot be read
RootlessDocument == [generatedAt |-> 0, projectName |-> "orka"]
EmptyDirectoryDocument ==
  [ rootDirectory |-> "/elsewhere",
    tree |-> [ name |-> "elsewhere", path |-> <<".">>, type |-> "directory",
               children |-> <<>>, truncated |-> FALSE ] ]
NullFile == [exists |-> TRUE, json |-> "null"]
MalformedFile == [exists |-> TRUE, malformed |-> TRUE]
UnreadableFile == [exists |-> TRUE, unreadable |-> TRUE]
PriorFiles == { NoDocument, StaleDocument, RootlessDocument, EmptyDirectoryDocument,
                NullFile, MalformedFile, UnreadableFile }

DefaultOutput == [outputDirectory |-> <<".orka">>,
                  structureFileName |-> "project-structure.json"]

Scenarios(shapes, failing, packages, depths, caps, hidden, ignores, techs,
          languages, roots, priors) ==
  [ shape : shapes, unreadable : failing, package : packages, maxDepth : depths,
    maxEntriesPerDirectory : caps, includeHidden : hidden, ignore : ignores,
    manualTechStack : techs, manualLanguages : languages, rootDirectory : roots,
    prior : priors ]

\* the walk under every option, the manifest and manual lists under a few
WalkScenarios ==
  Scenarios({ShapeDeep, ShapeFlat, ShapeMixed},
            {{}, {<<>>}, {<<"src">>}, {<<"docs">>}},
            {PkgAbsent, PkgReact}, 1..MaxDepth, 1..MaxEntries, BOOLEAN,
            {{}, {<<"docs">>}, {<<"src", "components">>}},
            {<<>>}, {<<>>}, {"."}, {NoDocument})
\* every manifest and manual list, the walk under one option
ManifestScenarios ==
  Scenarios({ShapeMixed}, {{}}, PackageFiles, {MaxDepth}, {MaxEntries}, {FALSE},
            {{}},
            {<<>>, <<" React ", "  ">>, <<"TypeScript", "Docker">>},
            {<<>>, <<"TypeScript", " Rust">>}, {"."}, {NoDocument})
\* a root that is missing or no directory, and a root elsewhere
RootScenarios ==
  Scenarios({ShapeMissing, ShapeRootIsFile, ShapeFlat}, {{}},
            {PkgAbsent}, {MaxDepth}, {MaxEntries}, {FALSE}, {{}}, {<<>>}, {<<>>},
            {"/srv/app"}, PriorFiles)

\* a root holding some of the lock files, under manifests that declare a
\* package manager, declare none, or cannot be read
LockFileNames == {"pnpm-lock.yaml", "yarn.lock", "package-lock.json", "bun.lockb"}
LockShape(present) ==
  [q \in {<<>>} \cup {<<name>> : name \in present} |->
     IF q = <<>> THEN "directory" ELSE "file"]
LockScenarios ==
  Scenarios({LockShape(present) : present \in SUBSET LockFileNames}, {{}},
            {PkgAbsent, PkgMalformed, PkgTooling, PkgEmptyManager, PkgNumberManager},
            {MaxDepth}, {MaxEntries}, {FALSE}, {{}}, {<<>>}, {<<>>}, {"."},
            {NoDocument})

\* the scan of the example project and of the component directories under
\* the default options
DefaultScenarios ==
  Scenarios({ShapeButton, ShapeComponents, ShapeFlat, ShapeLinked, ShapeEnv}, {{}},
            {PkgAbsent, PkgReactOnly},
            {DefaultMaxDepth}, {DefaultMaxEntries}, BOOLEAN, {{}}, {<<>>}, {<<>>},
            {"."}, {NoDocument})

InputOf(sc) ==
  [ rootDirectory |-> sc.rootDirectory,
    outputDirectory |-> DefaultOutput.outputDirectory,
    structureFileName |-> DefaultOutput.structureFileName,
    maxDepth |-> sc.maxDepth,
    maxEntriesPerDirectory |-> sc.maxEntriesPerDirectory,
    includeHidden |-> sc.includeHidden,
    ignore |-> sc.ignore,
    projectDescription |-> Undefined,
    manualTechStack |-> sc.manualTechStack,
    manualLanguages |-> sc.manualLanguages ]

Directories(shape) == {q \in DOMAIN shape : shape[q] = "directory"}

FileSystemOf(sc) ==
  IF <<>> \in Directories(sc.shape) /\ sc.package.state # "absent"
  THEN <<"package.json">> :> "file" @@ sc.shape
  ELSE sc.shape

\* the output files of the invocations, and the one the reader looks for
OutputPaths(inputs) ==
  {structureFilePath(DefaultOutput)} \cup {structureFilePath(inputs[p]) : p \in Procs}

PriorAt(sc, inputs, f) ==
  IF \E p \in Procs : f = structureFilePath(inputs[p]) THEN sc.prior ELSE NoDocument

\* an invocation of createTodoPlan, and a call of a fetch helper, that have
\* not begun; an output directory without state.json and session files
IdleOrchestration ==
  [ pc |-> "off", return |-> "manifest", createdAt |-> 0, loads |-> 0,
    modelCalls |-> 0, written |-> 0, base |-> [status |-> "pending"],
    record |-> <<>>, updated |-> <<>>, calls |-> 0,
    outcome |-> [status |-> "pending"] ]
IdleFetch ==
  [ pc |-> "off", attempt |-> 0, requests |-> 0, responses |-> <<>>,
    outcome |-> [status |-> "pending"] ]
Helpers == {"fetchJson", "fetchText"}
EmptyDisk ==
  [ state |-> NoDocument, stateLength |-> 0, files |-> {}, history |-> <<>>,
    writers |-> {} ]

ScannerStart(sc, inputs, active) ==
  /\ sc.unreadable \subseteq Directories(sc.shape)
  /\ fs = FileSystemOf(sc)
  /\ unreadable = sc.unreadable
  /\ packageFile = sc.package
  /\ artifacts = [f \in OutputPaths(inputs) |-> PriorAt(sc, inputs, f)]
  /\ clock = 1
  /\ args = inputs
  /\ pc = [p \in Procs |-> IF p \in active THEN "start" ELSE "off"]
  /\ stack = [p \in Procs |-> <<>>]
  /\ stats = [p \in Procs |->
                [totalFiles |-> 0, totalDirectories |-> 0, extensions |-> <<>>]]
  /\ acc = [p \in Procs |-> [warnings |-> <<>>, componentDirectories |-> {},
                             entityDirectories |-> {}]]
  /\ tree = [p \in Procs |-> TruncatedLeaf(<<>>)]
  /\ packageJson = [p \in Procs |-> NoPackageJson]
  /\ overview = [p \in Procs |-> <<>>]
  /\ result = [p \in Procs |-> [status |-> "pending"]]
  /\ reads = [p \in Procs |-> {}]
  /\ pending = [p \in Procs |-> NoDocument]
  /\ fileLength = [f \in OutputPaths(inputs) |->
                     textLength(PriorAt(sc, inputs, f))]
  /\ loaded = [status |-> "idle"]

StartWith(sc, inputs, active) ==
  /\ ScannerStart(sc, inputs, active)
  /\ orch = [o \in Procs |-> IdleOrchestration]
  /\ disk = EmptyDisk
  /\ http = [h \in Helpers |-> IdleFetch]

Start(sc, active) == StartWith(sc, [p \in Procs |-> InputOf(sc)], active)

\* a root that holds what an earlier scan wrote, under the outputDirectory
\* and structureFileName of that scan: the default ones, a directory of the
\* root with either file name, and the root itself
Outputs ==
  { DefaultOutput,
    [outputDirectory |-> <<"reports">>, structureFileName |-> "project-structure.json"],
    [outputDirectory |-> <<"reports">>, structureFileName |-> "base.json"],
    [outputDirectory |-> <<>>, structureFileName |-> "project-structure.json"] }

OutputScenarios ==
  Scenarios({ShapeButton}, {{}}, {PkgAbsent}, {DefaultMaxDepth}, {DefaultMaxEntries},
            BOOLEAN, {{}}, {<<>>}, {<<>>}, {"."}, {StaleDocument})

\* the file system after writeFileSafely of the earlier scan
AfterOutput(sc, output) ==
  LET target == structureFilePath(output)
      parents == {SubSeq(target, 1, k) : k \in 0..(Len(target) - 1)}
  IN  [ sc EXCEPT !.shape =
          [q \in DOMAIN sc.shape \cup parents \cup {target} |->
             IF q = target THEN "file"
             ELSE IF q \in DOMAIN sc.shape THEN sc.shape[q] ELSE "directory"] ]

OutputInputs(sc, output) ==
  [p \in Procs |-> [InputOf(sc) EXCEPT
                       !.outputDirectory = output.outputDirectory,
                       !.structureFileName = output.structureFileName]]

Init ==
  \/ \E sc \in WalkScenarios \cup ManifestScenarios \cup RootScenarios
              \cup DefaultScenarios \cup LockScenarios :
        Start(sc, {1})
  \/ \E sc \in OutputScenarios, output \in Outputs :
        StartWith(AfterOutput(sc, output), OutputInputs(sc, output), {1})

(***************************************************************************)
(* The reader of the project base: loadProjectBase and                     *)
(* buildProjectBaseContext, as createTodoPlan calls them.                   *)
(***************************************************************************)
Null == "<null>"
EmptyObject == "<{}>"

\* JSON.stringify followed by JSON.parse: members that are undefined are
\* left out, a function inside an array becomes null and a plain object
\* without own members becomes {}
dropUndefined(record, keys) ==
  [k \in DOMAIN record \ {key \in keys \cap DOMAIN record : record[key] = Undefined}
     |-> record[k]]

jsonOfLabel(label) ==
  IF label = Inherited("__proto__") THEN EmptyObject
  ELSE IF label \in {Inherited(key) : key \in ObjectPrototypeKeys} THEN Null
  ELSE label

jsonRoundTrip(document) ==
  LET top == dropUndefined(document, {"projectName", "description", "packageManager"})
      withOptions ==
        IF "options" \in DOMAIN top
        THEN [top EXCEPT !.options = dropUndefined(@, {"projectDescription"})]
        ELSE top
  IN  IF "techStack" \in DOMAIN withOptions
      THEN [withOptions EXCEPT !.techStack = [i \in DOMAIN @ |-> jsonOfLabel(@[i])]]
      ELSE withOptions

\* structureNodeSchema, projectBaseSchema: what parse accepts.  Names, paths
\* and time stamps of the model stand for strings, Null and EmptyObject do not.
RECURSIVE structureNodeConforms(_)
structureNodeConforms(node) ==
  /\ {"name", "path", "type"} \subseteq DOMAIN node
  /\ node.type \in {"directory", "file", "symlink"}
  /\ "truncated" \in DOMAIN node => node.truncated \in BOOLEAN
  /\ "children" \in DOMAIN node =>
        \A i \in DOMAIN node.children : structureNodeConforms(node.children[i])

\* variant of the schema in which rootDirectory is optional too
projectBaseConformsLoosely(raw) ==
  /\ "techStack" \in DOMAIN raw =>
        \A i \in DOMAIN raw.techStack : raw.techStack[i] \notin {Null, EmptyObject}
  /\ "tree" \in DOMAIN raw => structureNodeConforms(raw.tree)

projectBaseConforms(raw) ==
  LET every(key, members) ==
        key \in DOMAIN raw =>
           \A i \in DOMAIN raw[key] : members \subseteq DOMAIN raw[key][i]
  IN  /\ "rootDirectory" \in DOMAIN raw
      /\ \A key \in {"rootDirectory", "projectName", "description",
                       "packageManager"} \cap DOMAIN raw : typeofString(raw[key])
      /\ every("languages", {"language", "count"})
      /\ every("primaryDirectories", {"name", "path"})
      /\ every("scripts", {"name", "command"})
      /\ "scripts" \in DOMAIN raw =>
            \A i \in DOMAIN raw.scripts : typeofString(raw.scripts[i].command)
      /\ "techStack" \in DOMAIN raw =>
            \A i \in DOMAIN raw.techStack : raw.techStack[i] \notin {Null, EmptyObject}
      /\ "tree" \in DOMAIN raw => structureNodeConforms(raw.tree)

projectBaseKeys ==
  { "generatedAt", "rootDirectory", "projectName", "description", "packageManager",
    "languages", "techStack", "primaryDirectories", "componentDirectories",
    "entityDirectories", "notableFiles", "scripts", "options", "tree", "warnings" }

\* z.object(...).parse keeps the members the schema names
projectBaseSchemaParse(raw) == [k \in DOMAIN raw \cap projectBaseKeys |-> raw[k]]

resolveProjectBasePath(baseDirectory, fileName) == Append(baseDirectory, fileName)

\* loadProjectBase, with readJsonSafely: what it returns or throws
loadProjectBase(baseDirectory, fileName) ==
  LET structurePath == resolveProjectBasePath(baseDirectory, fileName)
      content == artifacts[structurePath]
      threw(error) ==
        [status |-> "threw", error |-> error, path |-> structurePath]
  IN  IF "exists" \in DOMAIN content /\ ~content.exists
      THEN threw("not found, run projectOverview")
      ELSE IF "unreadable" \in DOMAIN content THEN threw("readFile failed")
      ELSE IF \/ "empty" \in DOMAIN content
              \/ "malformed" \in DOMAIN content
              \/ fileLength[structurePath] # textLength(content)
      THEN threw("Failed to parse JSON")
      ELSE IF "json" \in DOMAIN content THEN threw("empty or unreadable")
      ELSE IF ~projectBaseConforms(jsonRoundTrip(content)) THEN threw("validation")
      ELSE [ status |-> "returned",
             base |-> projectBaseSchemaParse(jsonRoundTrip(content)),
             path |-> structurePath ]

\* stringifyLanguages, lines 38-48: a count is shown when it is positive
stringifyLanguages(languages) ==
  [i \in DOMAIN languages |->
     IF languages[i].count > 0
     THEN [language |-> languages[i].language, files |-> languages[i].count]
     ELSE [language |-> languages[i].language]]

\* stringifyDirectories, lines 57-71
stringifyDirectories(directories) ==
  [i \in DOMAIN directories |->
     [ path |-> directories[i].path,
       truncatedView |-> IF "truncated" \in DOMAIN directories[i]
                         THEN directories[i].truncated ELSE FALSE ]]

\* variant of buildProjectBaseContext that keeps the heading of a list that
\* is present but empty
buildProjectBaseContextWithEmptyLists(base) ==
  LET text(key) == IF key \in DOMAIN base THEN base[key] ELSE ""
      list(key) == IF key \in DOMAIN base THEN base[key] ELSE <<>>
      one(key) == IF text(key) # "" THEN <<text(key)>> ELSE <<>>
      section(heading, items) ==
        IF items = <<>> THEN <<>>
        ELSE << [heading |-> heading, items |-> items] >>
      listed(heading, key, items) ==
        IF key \in DOMAIN base
        THEN << [heading |-> heading, items |-> items] >> ELSE <<>>
  IN  section("Project base summary", one("projectName") \o one("description"))
      \o listed("Tech stack", "techStack", list("techStack"))
      \o listed("Languages", "languages", stringifyLanguages(list("languages")))
      \o listed("Primary directories", "primaryDirectories",
                stringifyDirectories(list("primaryDirectories")))
      \o listed("Component directories", "componentDirectories",
                list("componentDirectories"))
      \o listed("Entity directories", "entityDirectories", list("entityDirectories"))
      \o listed("Notable files", "notableFiles", list("notableFiles"))
      \o listed("Key scripts", "scripts", list("scripts"))
      \o section("Package manager", one("packageManager"))
      \o listed("Structure warnings", "warnings", list("warnings"))

\* buildProjectBaseContext: the text is sections.join("\n\n"), kept as the
\* sequence of its sections, each a heading with its items; the empty
\* sequence is the empty string
buildProjectBaseContext(base) ==
  LET text(key) == IF key \in DOMAIN base THEN base[key] ELSE ""
      list(key) == IF key \in DOMAIN base THEN base[key] ELSE <<>>
      one(key) == IF text(key) # "" THEN <<text(key)>> ELSE <<>>
      section(heading, items) ==
        IF items = <<>> THEN <<>>
        ELSE << [heading |-> heading, items |-> items] >>
  IN  section("Project base summary", one("projectName") \o one("description"))
      \o section("Tech stack", list("techStack"))
      \o section("Languages", stringifyLanguages(list("languages")))
      \o section("Primary directories",
                 stringifyDirectories(list("primaryDirectories")))
      \o section("Component directories", list("componentDirectories"))
      \o section("Entity directories", list("entityDirectories"))
      \o section("Notable files", list("notableFiles"))
      \o section("Key scripts", list("scripts"))
      \o section("Package manager", one("packageManager"))
      \o section("Structure warnings", list("warnings"))

\* createTodoPlan: loadProjectBase(baseDirectory), then
\* buildProjectBaseContext on the base it returned
LoadProjectBase ==
  /\ loaded.status = "idle"
  /\ loaded' =
       LET outcome == loadProjectBase(DefaultOutput.outputDirectory,
                                      DefaultOutput.structureFileName)
       IN  IF outcome.status = "returned"
           THEN [ status |-> "returned", base |-> outcome.base,
                  path |-> outcome.path,
                  baseContext |-> buildProjectBaseContext(outcome.base) ]
           ELSE outcome
  /\ UNCHANGED << fs, unreadable, packageFile, artifacts, clock, args, pc, stack,
                  stats, acc, tree, packageJson, overview, result, reads,
                  pending, fileLength,
                  orch, disk, http >>

\* two invocations with the same arguments on a root outside the working
\* directory, so that neither writes into the tree the other scans
PairScenarios ==
  Scenarios({ShapeDeep, ShapeFlat}, {{}, {<<"src">>}}, {PkgReact},
            1..MaxDepth, {MaxEntries}, {FALSE}, {{}}, {<<" React ", "  ">>},
            {<<"TypeScript", " Rust">>}, {"/srv/app"}, {NoDocument})

InitPair == \E sc \in PairScenarios : Start(sc, {1, 2})

\* two invocations writing the same output file, the first with maxDepth 1
RaceScenarios ==
  Scenarios({ShapeLinked, ShapeDeep}, {{}}, {PkgAbsent}, {MaxDepth}, {MaxEntries},
            {FALSE}, {{}}, {<<>>}, {<<>>}, {"/srv/app"}, {NoDocument})

RaceInputs(sc) ==
  [p \in Procs |-> [InputOf(sc) EXCEPT !.maxDepth = IF p = 1 THEN 1 ELSE @]]

InitRace == \E sc \in RaceScenarios : StartWith(sc, RaceInputs(sc), {1, 2})

Step(p) ==
  \/ BeginAnalyse(p)
  \/ EnterDirectory(p)
  \/ TruncateDirectory(p)
  \/ VisitSymlink(p)
  \/ VisitFile(p)
  \/ ReturnDirectory(p)
  \/ ReadManifest(p)
  \/ Assemble(p)
  \/ Persist(p)
  \/ WriteArtifact(p)

Next == (\E p \in Procs : Step(p)) \/ LoadProjectBase

Spec == Init /\ [][Next]_vars
SpecPair == InitPair /\ [][Next]_vars
SpecRace == InitRace /\ [][Next]_vars

(***************************************************************************)
(* createTodoPlan: the orchestration pipeline and the state manifest.      *)
(* Each invocation is a process o; every await of execute is a step.       *)
(***************************************************************************)
MaxCalls == 3

\* toSessionIdentifiers: the stamp of the time and the slug of the prompt;
\* invocation o has its own prompt
SessionId(o, createdAt) == <<createdAt, o>>
SessionRecord(o) ==
  [ sessionId |-> SessionId(o, orch[o].createdAt),
    createdAt |-> orch[o].createdAt,
    prompt |-> o ]

\* the five files written before the state manifest, in the order of lines
\* 131-161
SessionFiles == << "tasks.md", "plan.json", "analysis.json", "context7.json",
                   "progress.json" >>

\* loadStateManifest, with readJsonSafely: no file gives no sessions, a file
\* that is empty or holds more text than one document fails JSON.parse
loadStateManifest ==
  IF disk.state = NoDocument THEN [status |-> "returned", sessions |-> <<>>]
  ELSE IF "empty" \in DOMAIN disk.state
          \/ disk.stateLength # Len(disk.state.sessions)
  THEN [status |-> "threw", error |-> "Failed to parse JSON"]
  ELSE [status |-> "returned", sessions |-> disk.state.sessions]

\* variant of lines 173-174 that pushes without filtering
withRecordPushed(sessions, record) == Append(sessions, record)

\* lines 173-174: the entries of other sessions, then the record
withRecord(sessions, record) ==
  Append(SelectSeq(sessions, LAMBDA session : session.sessionId # record.sessionId),
         record)

\* line 177: sort with (a, b) => a.createdAt < b.createdAt ? 1 : -1.  The
\* comparator never returns 0, so the order of entries of equal createdAt is
\* left to the runtime: every arrangement that descends by createdAt
sortedSessions(sessions) ==
  { [i \in DOMAIN sessions |-> sessions[order[i]]] :
      order \in { o \in Orderings(DOMAIN sessions) :
                    \A i \in 1..(Len(sessions) - 1) :
                       sessions[o[i]].createdAt >= sessions[o[i + 1]].createdAt } }

Fail(o, error) ==
  [orch EXCEPT ![o].pc = "failed",
               ![o].outcome = [status |-> "threw", error |-> error]]

\* lines 42-53
StartOrchestration(o) ==
  /\ orch[o].pc = "start"
  /\ orch' = [orch EXCEPT ![o].pc = "load", ![o].createdAt = clock]
  /\ clock' \in {clock, clock + 1}
  /\ UNCHANGED << fs, unreadable, packageFile, artifacts, args, pc, stack, stats,
                  acc, tree, packageJson, overview, result, reads, pending,
                  fileLength, loaded, disk, http >>

\* variant of lines 55-56 that goes on whatever the reader did
LoadBaseLenient(o) ==
  /\ orch[o].pc = "load"
  /\ orch' = [orch EXCEPT ![o].pc = "context7", ![o].loads = @ + 1]
  /\ UNCHANGED << fs, unreadable, packageFile, artifacts, clock, args, pc, stack,
                  stats, acc, tree, packageJson, overview, result, reads,
                  pending, fileLength, loaded, disk, http >>

\* lines 55-56: loadProjectBase(baseDirectory); what it throws ends execute
LoadBase(o) ==
  /\ orch[o].pc = "load"
  /\ LET outcome == loadProjectBase(DefaultOutput.outputDirectory,
                                    DefaultOutput.structureFileName)
     IN  orch' =
           IF outcome.status = "threw"
           THEN [orch EXCEPT ![o].pc = "failed", ![o].loads = @ + 1,
                             ![o].outcome = outcome]
           ELSE [orch EXCEPT ![o].pc = "context7", ![o].loads = @ + 1,
                             ![o].base =
                                [ status |-> "returned", path |-> outcome.path,
                                  baseContext |->
                                     buildProjectBaseContext(outcome.base) ]]
  /\ UNCHANGED << fs, unreadable, packageFile, artifacts, clock, args, pc, stack,
                  stats, acc, tree, packageJson, overview, result, reads,
                  pending, fileLength, loaded, disk, http >>

\* line 66: fetchContext7Insights catches what its requests throw
FetchInsights(o) ==
  /\ orch[o].pc = "context7"
  /\ orch' = [orch EXCEPT ![o].pc = "analysis"]
  /\ UNCHANGED << fs, unreadable, packageFile, artifacts, clock, args, pc, stack,
                  stats, acc, tree, packageJson, overview, result, reads,
                  pending, fileLength, loaded, disk, http >>

\* lines 82-106: analyzeRequirements, generatePlanForInput and
\* enhanceTaskPrompts, each a call of the language model that returns or throws
NextStage ==
  [analysis |-> "planning", planning |-> "enhancement", enhancement |-> "files"]
CallModel(o) ==
  /\ orch[o].pc \in DOMAIN NextStage
  /\ \E returns \in BOOLEAN :
        orch' = IF returns
                THEN [orch EXCEPT ![o].pc = NextStage[orch[o].pc],
                                  ![o].modelCalls = @ + 1]
                ELSE [Fail(o, "model call failed") EXCEPT ![o].modelCalls = @ + 1]
  /\ UNCHANGED << fs, unreadable, packageFile, artifacts, clock, args, pc, stack,
                  stats, acc, tree, packageJson, overview, result, reads,
                  pending, fileLength, loaded, disk, http >>

\* lines 131-161: writeFileSafely and writeJsonSafely into the session
\* directory, one file a step
WriteSessionFile(o) ==
  /\ orch[o].pc = "files"
  /\ LET name == SessionFiles[orch[o].written + 1]
     IN  /\ disk' = [disk EXCEPT !.files =
                       @ \cup {<<SessionId(o, orch[o].createdAt), name>>}]
         /\ orch' = [orch EXCEPT
                       ![o].written = @ + 1,
                       ![o].record = SessionRecord(o),
                       ![o].pc = IF orch[o].written + 1 = Len(SessionFiles)
                                 THEN "read" ELSE "files"]
  /\ UNCHANGED << fs, unreadable, packageFile, artifacts, clock, args, pc, stack,
                  stats, acc, tree, packageJson, overview, result, reads,
                  pending, fileLength, loaded, http >>

\* a caller of updateStateManifest other than execute, with any record
Records == [sessionId : {<<1, 1>>, <<2, 1>>}, createdAt : {1, 2}, prompt : {1, 2}]
CallUpdateStateManifest(o) ==
  /\ orch[o].pc = "caller"
  /\ orch[o].calls < MaxCalls
  /\ \E record \in Records :
        orch' = [orch EXCEPT ![o].pc = "read", ![o].record = record,
                             ![o].calls = @ + 1]
  /\ UNCHANGED << fs, unreadable, packageFile, artifacts, clock, args, pc, stack,
                  stats, acc, tree, packageJson, overview, result, reads,
                  pending, fileLength, loaded, disk, http >>

\* updateStateManifest, lines 172-178: the manifest is read, filtered,
\* extended and sorted
ReadState(o) ==
  /\ orch[o].pc = "read"
  /\ IF loadStateManifest.status = "threw"
     THEN orch' = Fail(o, loadStateManifest.error)
     ELSE \E updated \in sortedSessions(withRecord(loadStateManifest.sessions,
                                                   orch[o].record)) :
             orch' = [orch EXCEPT ![o].pc = "open", ![o].updated = updated]
  /\ UNCHANGED << fs, unreadable, packageFile, artifacts, clock, args, pc, stack,
                  stats, acc, tree, packageJson, overview, result, reads,
                  pending, fileLength, loaded, disk, http >>

\* line 180, writeFileSafely line 23: fs.writeFile opens state.json with flag
\* "w", which empties it
OpenState(o) ==
  /\ orch[o].pc = "open"
  /\ disk' = [disk EXCEPT !.state = EmptyFile, !.stateLength = 0,
                          !.writers = @ \cup {o}]
  /\ orch' = [orch EXCEPT ![o].pc = "write"]
  /\ UNCHANGED << fs, unreadable, packageFile, artifacts, clock, args, pc, stack,
                  stats, acc, tree, packageJson, overview, result, reads,
                  pending, fileLength, loaded, http >>

\* line 180 and lines 182-183: the text is written from offset 0 over what
\* the file holds by then, and updateStateManifest returns
WriteState(o) ==
  /\ orch[o].pc = "write"
  /\ disk' = [disk EXCEPT
                !.state = [sessions |-> orch[o].updated],
                !.stateLength = IF @ > Len(orch[o].updated) THEN @
                                ELSE Len(orch[o].updated),
                !.history = Append(@, orch[o].record)]
  /\ orch' = [orch EXCEPT ![o].pc = orch[o].return]
  /\ UNCHANGED << fs, unreadable, packageFile, artifacts, clock, args, pc, stack,
                  stats, acc, tree, packageJson, overview, result, reads,
                  pending, fileLength, loaded, http >>

\* lines 186-243: the session's manifest file, and the result
WriteManifestFile(o) ==
  /\ orch[o].pc = "manifest"
  /\ disk' = [disk EXCEPT !.files =
                @ \cup {<<SessionId(o, orch[o].createdAt), "manifest.json">>}]
  /\ orch' = [orch EXCEPT ![o].pc = "done",
                          ![o].outcome = [status |-> "returned"]]
  /\ UNCHANGED << fs, unreadable, packageFile, artifacts, clock, args, pc, stack,
                  stats, acc, tree, packageJson, overview, result, reads,
                  pending, fileLength, loaded, http >>

Orchestrate(o) ==
  \/ StartOrchestration(o)
  \/ LoadBase(o)
  \/ FetchInsights(o)
  \/ CallModel(o)
  \/ WriteSessionFile(o)
  \/ ReadState(o)
  \/ OpenState(o)
  \/ WriteState(o)
  \/ WriteManifestFile(o)

\* two invocations of createTodoPlan on an output directory that holds any of
\* the project base files, no scan running
SessionScenarios ==
  Scenarios({ShapeFlat}, {{}}, {PkgAbsent}, {MaxDepth}, {MaxEntries}, {FALSE},
            {{}}, {<<>>}, {<<>>}, {"/srv/app"}, PriorFiles)

InitSession ==
  \E sc \in SessionScenarios :
     /\ ScannerStart(sc, [p \in Procs |-> InputOf(sc)], {})
     /\ orch = [o \in Procs |-> [IdleOrchestration EXCEPT !.pc = "start"]]
     /\ disk = EmptyDisk
     /\ http = [h \in Helpers |-> IdleFetch]

NextSession == \E o \in Procs : Orchestrate(o)

SpecSession == InitSession /\ [][NextSession]_vars

\* one caller of updateStateManifest, one call after the other
InitManifest ==
  \E sc \in SessionScenarios :
     /\ sc.prior = NoDocument
     /\ ScannerStart(sc, [p \in Procs |-> InputOf(sc)], {})
     /\ orch = [o \in Procs |->
                  IF o = 1
                  THEN [IdleOrchestration EXCEPT !.pc = "caller", !.return = "caller"]
                  ELSE IdleOrchestration]
     /\ disk = EmptyDisk
     /\ http = [h \in Helpers |-> IdleFetch]

NextManifest ==
  \E o \in Procs :
     \/ CallUpdateStateManifest(o)
     \/ ReadState(o)
     \/ OpenState(o)
     \/ WriteState(o)

SpecManifest == InitManifest /\ [][NextManifest]_vars

(***************************************************************************)
(* The Context7 client: fetchJson and fetchText.                           *)
(***************************************************************************)
MAX_RETRIES == 2

\* what the runtime's fetch does with one request: it rejects (a network
\* error, an abort), or it resolves with a response whose status is OK or
\* not and whose body is JSON text, other text, or a stream that breaks
BrokenStream == "<stream error>"
Bodies == {"[]", "<html>", BrokenStream}
Rejected == [rejected |-> TRUE, ok |-> FALSE, body |-> BrokenStream]
Responses ==
  {Rejected} \cup [rejected : {FALSE}, ok : BOOLEAN, body : Bodies]

\* response.json() of line 266 and response.text() of line 301
JsonValue == "array of length 0"
SyntaxError == "SyntaxError"
TypeError == "TypeError"
Context7Error == "Context7Error"
readBody(h, body) ==
  IF body = BrokenStream THEN [status |-> "threw", error |-> TypeError]
  ELSE IF h = "fetchText" THEN [status |-> "returned", value |-> body]
  ELSE IF body = "[]" THEN [status |-> "returned", value |-> JsonValue]
  ELSE [status |-> "threw", error |-> SyntaxError]

\* the try block, lines 255-266 and 290-301
attemptOutcome(h, response) ==
  IF response.rejected THEN [status |-> "threw", error |-> TypeError]
  ELSE IF ~response.ok THEN [status |-> "threw", error |-> Context7Error]
  ELSE readBody(h, response.body)

isLastAttempt(attempt) == attempt = MAX_RETRIES

\* variant of line 269 that gives up on the last attempt only
rethrowsOnLastAttempt(attempt, error) == isLastAttempt(attempt)

\* line 269: isLastAttempt || error instanceof Context7Error
rethrows(attempt, error) == isLastAttempt(attempt) \/ error = Context7Error

\* lines 247-250 and 282-285
CallFetch(h) ==
  /\ http[h].pc = "idle"
  /\ \E fetchFn \in BOOLEAN :
        http' = IF fetchFn
                THEN [http EXCEPT ![h].pc = "request"]
                ELSE [http EXCEPT ![h].pc = "threw",
                                  ![h].outcome =
                                     [ status |-> "threw", error |-> Context7Error,
                                       cause |-> "fetch is not available" ]]
  /\ UNCHANGED << fs, unreadable, packageFile, artifacts, clock, args, pc, stack,
                  stats, acc, tree, packageJson, overview, result, reads,
                  pending, fileLength, loaded, orch, disk >>

\* lines 252-260: the loop condition and the call of fetch; line 278 when
\* the loop ends
SendRequest(h) ==
  /\ http[h].pc = "request"
  /\ http' = IF http[h].attempt <= MAX_RETRIES
             THEN [http EXCEPT ![h].pc = "await", ![h].requests = @ + 1]
             ELSE [http EXCEPT ![h].pc = "threw",
                               ![h].outcome =
                                  [ status |-> "threw", error |-> Context7Error,
                                    cause |-> "retry loop exhausted" ]]
  /\ UNCHANGED << fs, unreadable, packageFile, artifacts, clock, args, pc, stack,
                  stats, acc, tree, packageJson, overview, result, reads,
                  pending, fileLength, loaded, orch, disk >>

\* lines 262-271: the response arrives or the request fails; the body is
\* read; what is thrown is rethrown as a Context7Error or leads to the delay
Respond(h) ==
  /\ http[h].pc = "await"
  /\ \E response \in Responses :
        LET outcome == attemptOutcome(h, response)
            received == [http EXCEPT ![h].responses = Append(@, response)]
        IN  http' =
              IF outcome.status = "returned"
              THEN [received EXCEPT ![h].pc = "returned", ![h].outcome = outcome]
              ELSE IF rethrows(http[h].attempt, outcome.error)
              THEN [received EXCEPT
                      ![h].pc = "threw",
                      ![h].outcome = [ status |-> "threw", error |-> Context7Error,
                                       cause |-> outcome.error ]]
              ELSE [received EXCEPT ![h].pc = "backoff"]
  /\ UNCHANGED << fs, unreadable, packageFile, artifacts, clock, args, pc, stack,
                  stats, acc, tree, packageJson, overview, result, reads,
                  pending, fileLength, loaded, orch, disk >>

\* lines 273-275 and the loop's attempt += 1: the delay's timer fires
Backoff(h) ==
  /\ http[h].pc = "backoff"
  /\ http' = [http EXCEPT ![h].pc = "request", ![h].attempt = @ + 1]
  /\ UNCHANGED << fs, unreadable, packageFile, artifacts, clock, args, pc, stack,
                  stats, acc, tree, packageJson, overview, result, reads,
                  pending, fileLength, loaded, orch, disk >>

FetchStep(h) == SendRequest(h) \/ Respond(h) \/ Backoff(h)

\* one call of either helper, no scan and no orchestration running
InitFetch ==
  \E sc \in SessionScenarios, called \in Helpers :
     /\ sc.prior = NoDocument
     /\ ScannerStart(sc, [p \in Procs |-> InputOf(sc)], {})
     /\ orch = [o \in Procs |-> IdleOrchestration]
     /\ disk = EmptyDisk
     /\ http = [h \in Helpers |->
                  IF h = called THEN [IdleFetch EXCEPT !.pc = "idle"]
                  ELSE IdleFetch]

NextFetch == \E h \in Helpers : CallFetch(h) \/ FetchStep(h)

\* the code between two awaits runs to the next await; a fetch ends, at the
\* latest by the connect, headers and body timeouts of the runtime's client,
\* and the timer of delay fires
SpecFetch ==
  /\ InitFetch
  /\ [][NextFetch]_vars
  /\ \A h \in Helpers : WF_vars(FetchStep(h))
(***************************************************************************)
(* Properties of the walk.                                                 *)
(***************************************************************************)
\* the walk of p has returned its tree
Walked(p) == pc[p] \in {"manifest", "assemble", "persist", "write", "done"}

ChildrenOf(node) == IF "children" \in DOMAIN node THEN node.children ELSE <<>>

\* every node of a tree with its depth, the root at depth
RECURSIVE Located(_, _)
Located(node, depth) ==
  {[node |-> node, depth |-> depth]} \cup
  UNION {Located(ChildrenOf(node)[i], depth + 1) : i \in DOMAIN ChildrenOf(node)}

NodesOf(p) == Located(tree[p], 0)
DirectoryNodes(p) == {n \in NodesOf(p) : n.node.type = "directory"}
\* the directories whose listing was read: their node carries children
ListedNodes(p) == {n \in DirectoryNodes(p) : "children" \in DOMAIN n.node}

DirectoryOf(node) == IF node.path = <<".">> THEN <<>> ELSE node.path

\* the entries of a directory that shouldIgnoreEntry keeps
NonIgnored(dir, p) ==
  {q \in ChildPaths(dir) :
     ~shouldIgnoreEntry(q[Len(q)], q, ScanOptions(args[p]))}

Min(a, b) == IF a < b THEN a ELSE b
Cap(p) == args[p].maxEntriesPerDirectory

\* C1 as stated: every directory node has at most maxEntriesPerDirectory
\* children, and when its directory holds more non-ignored entries than that
\* it has exactly maxEntriesPerDirectory children and is truncated.
C1_AsStated ==
  \A p \in Procs : Walked(p) =>
    \A n \in DirectoryNodes(p) :
       /\ Len(ChildrenOf(n.node)) <= Cap(p)
       /\ Cardinality(NonIgnored(DirectoryOf(n.node), p)) > Cap(p) =>
             /\ Len(ChildrenOf(n.node)) = Cap(p)
             /\ n.node.truncated

\* C1 amended: every directory node has at most maxEntriesPerDirectory
\* children, and every directory node whose listing was read (it is neither a
\* depth-truncated leaf nor a failed read) and whose directory holds more
\* non-ignored entries than that has exactly maxEntriesPerDirectory children
\* and truncated = true.
C1_EntryCap ==
  \A p \in Procs : Walked(p) =>
    /\ \A n \in DirectoryNodes(p) : Len(ChildrenOf(n.node)) <= Cap(p)
    /\ \A n \in ListedNodes(p) :
         Cardinality(NonIgnored(DirectoryOf(n.node), p)) > Cap(p) =>
            /\ Len(n.node.children) = Cap(p)
            /\ n.node.truncated

C1_Witness ==
  \E p \in Procs :
    /\ Walked(p)
    /\ \E n \in ListedNodes(p) :
         /\ Cardinality(NonIgnored(DirectoryOf(n.node), p)) > Cap(p)
         /\ Cap(p) > 1

\* C2: maxDepth is a hard ceiling.  No node lies deeper than maxDepth; no node
\* at depth >= maxDepth has children; a directory at depth maxDepth is a
\* directory node with truncated = true and no children; fs.readdir is never
\* called on a directory at depth >= maxDepth, so nothing beneath one is in
\* the tree, in a warning or among the classified directories.
C2_DepthCeiling ==
  \A p \in Procs :
    /\ \A q \in reads[p] : Len(q) < args[p].maxDepth
    /\ \A i \in DOMAIN acc[p].warnings : Len(acc[p].warnings[i].path) <= args[p].maxDepth
    /\ \A q \in acc[p].componentDirectories \cup acc[p].entityDirectories :
          Len(q) <= args[p].maxDepth
    /\ Walked(p) =>
         \A n \in NodesOf(p) :
            /\ n.depth <= args[p].maxDepth
            /\ Len(DirectoryOf(n.node)) = n.depth
            /\ n.depth >= args[p].maxDepth => ChildrenOf(n.node) = <<>>
            /\ (n.depth = args[p].maxDepth /\ n.node.type = "directory") =>
                  /\ n.node.truncated
                  /\ "children" \notin DOMAIN n.node
                  /\ DirectoryOf(n.node) \notin reads[p]

C2_Witness ==
  \E p \in Procs :
    /\ pc[p] = "done"
    /\ \E n \in DirectoryNodes(p) :
         /\ n.depth = args[p].maxDepth
         /\ \E q \in ChildPaths(DirectoryOf(n.node)) : fs[q] = "directory"

\* C3 as stated: every node at depth exactly maxDepth has truncated = true
\* and no children.
C3_AsStated ==
  \A p \in Procs : Walked(p) =>
    \A n \in NodesOf(p) :
       n.depth = args[p].maxDepth =>
          /\ "truncated" \in DOMAIN n.node
          /\ n.node.truncated
          /\ ChildrenOf(n.node) = <<>>

\* C3 amended: every directory node at depth exactly maxDepth is a truncated
\* leaf (truncated = true, no children); a file or symlink node at that depth
\* has no children and carries no truncated flag.
C3_TruncatedLeaves ==
  \A p \in Procs : Walked(p) =>
    \A n \in NodesOf(p) :
       n.depth = args[p].maxDepth =>
          /\ ChildrenOf(n.node) = <<>>
          /\ IF n.node.type = "directory"
             THEN n.node.truncated /\ "children" \notin DOMAIN n.node
             ELSE "truncated" \notin DOMAIN n.node

C3_Witness ==
  \E p \in Procs :
    /\ Walked(p)
    /\ \E n, m \in NodesOf(p) :
         /\ n.depth = args[p].maxDepth /\ n.node.type = "directory"
         /\ m.depth = args[p].maxDepth /\ m.node.type = "file"
NameOf(q) == q[Len(q)]

\* the children of every listed directory are the first min(cap, k) of its k
\* non-ignored entries in the ascending order that Compare gives, with the
\* type of the entry
ChildrenInOrder(p, Compare) ==
  \A n \in ListedNodes(p) :
     LET kept == NonIgnored(DirectoryOf(n.node), p)
         children == n.node.children
     IN  /\ Len(children) = Min(Cap(p), Cardinality(kept))
         /\ \A i \in DOMAIN children :
              \E q \in kept :
                 /\ children[i].name = NameOf(q)
                 /\ children[i].path = q
                 /\ children[i].type = fs[q]
                 /\ Cardinality({r \in kept : Compare[NameOf(r)][NameOf(q)] < 0}) = i - 1

\* C4 as stated: the children of every successfully listed directory are the
\* first min(cap, k) of its k non-ignored entries in ascending lexicographic
\* (code unit) order of name; no ignored entry is among them or takes a slot.
C4_AsStated == \A p \in Procs : Walked(p) => ChildrenInOrder(p, CodeUnitTable)

\* C4 amended: the children of every successfully listed directory are the
\* first min(cap, k) of its k non-ignored entries in the ascending order of
\* name.localeCompare (locale collation: letters compare case-insensitively
\* first, so "package.json" precedes "README.md"); ignored entries are removed
\* before the cap, and directories, files and symlinks are interleaved by name.
C4_SortedFilteredCapped == \A p \in Procs : Walked(p) => ChildrenInOrder(p, LocaleTable)

C4_Witness ==
  \E p \in Procs :
    /\ Walked(p)
    /\ \E n \in ListedNodes(p) :
         /\ Len(n.node.children) >= 2
         /\ n.node.children[1].type # n.node.children[2].type
         /\ n.node.truncated
         /\ \E q \in ChildPaths(DirectoryOf(n.node)) :
               /\ q \notin NonIgnored(DirectoryOf(n.node), p)
               /\ LocaleTable[NameOf(q)][n.node.children[2].name] < 0

WithoutTimestamp(document) == [document EXCEPT !.generatedAt = 0]

\* C5: two finished scans with identical arguments over a file system that
\* neither changed (their output lies outside the scanned root) have the same
\* tree, the same languages, tech stack and warnings, and their documents
\* differ at most in generatedAt.
C5_Deterministic ==
  \A p, r \in Procs :
    ( /\ pc[p] = "done" /\ pc[r] = "done"
      /\ args[p] = args[r]
      /\ resolveAbsolutePath(args[p].rootDirectory) # Cwd ) =>
        /\ tree[p] = tree[r]
        /\ result[p].overview.languages = result[r].overview.languages
        /\ result[p].overview.techStack = result[r].overview.techStack
        /\ result[p].warnings = result[r].warnings
        /\ WithoutTimestamp(Document(p)) = WithoutTimestamp(Document(r))

C5_Witness ==
  /\ pc[1] = "done" /\ pc[2] = "done"
  /\ args[1] = args[2]
  /\ resolveAbsolutePath(args[1].rootDirectory) # Cwd
  /\ result[1].generatedAt # result[2].generatedAt
  /\ Len(ChildrenOf(tree[1])) >= 3
  /\ result[1].warnings # <<>>

RECURSIVE SumCounts(_)
SumCounts(extensions) ==
  IF extensions = <<>> THEN 0
  ELSE extensions[1].count + SumCounts(Tail(extensions))

Symlinks(p) == {n \in NodesOf(p) : n.node.type = "symlink"}

\* C6: when the walk has returned, the counts of stats.extensions (the
\* "<none>" key included) add up to stats.totalFiles minus the number of
\* symlink nodes of the tree.
C6_ExtensionHistogram ==
  \A p \in Procs : Walked(p) =>
    SumCounts(stats[p].extensions) = stats[p].totalFiles - Cardinality(Symlinks(p))

C6_Witness ==
  \E p \in Procs :
    /\ Walked(p)
    /\ Symlinks(p) # {}
    /\ \E i \in DOMAIN stats[p].extensions :
          stats[p].extensions[i].extension = "<none>"
    /\ Len(stats[p].extensions) >= 2
(***************************************************************************)
(* Properties of analyseProject.                                           *)
(***************************************************************************)
RootIsDirectory == <<>> \in DOMAIN fs /\ fs[<<>>] = "directory"

\* C7: when the root does not exist, is inaccessible or is no directory, the
\* first step of the scan fails it with an error that names the resolved
\* absolute root path, no directory is read, and from then on the file at the
\* output path (and the file system) stays exactly as it was.
C7_RootFailure ==
  [][\A p \in Procs :
       /\ (pc[p] = "start" /\ ~RootIsDirectory /\ pc'[p] # "start") =>
             /\ pc'[p] = "failed"
             /\ result'[p].status = "threw"
             /\ result'[p].path = resolveAbsolutePath(args[p].rootDirectory)
             /\ reads'[p] = {}
             /\ artifacts' = artifacts /\ fs' = fs
       /\ pc[p] = "failed" =>
             pc'[p] = "failed" /\ artifacts' = artifacts /\ fs' = fs]_vars

C7_Witness ==
  \E p \in Procs :
    /\ pc[p] = "failed"
    /\ result[p].error = "not a directory"
    /\ artifacts[structureFilePath(args[p])] = StaleDocument

FailedReads(p) == reads[p] \cap unreadable
Count(seq, value) == Cardinality({i \in DOMAIN seq : seq[i] = value})
ReadWarning(q) == [kind |-> "readdir", path |-> q]
ManifestWarning == [kind |-> "package.json", path |-> <<"package.json">>]

\* C8: a directory that cannot be listed never aborts the walk.  A scan of a
\* root that is a directory never fails and its walk always has a next step;
\* each directory whose listing failed is a directory node with
\* truncated = true and no children, with exactly one warning naming it, and
\* its parent still holds all the entries it keeps; the warnings returned and
\* the warnings of the persisted artifact are the warnings recorded.
C8_ReadFailureIsWarning ==
  \A p \in Procs :
    /\ RootIsDirectory => pc[p] # "failed"
    /\ pc[p] = "walk" =>
          /\ stack[p] # <<>>
          /\ Top(p).index <= Len(Top(p).limited) =>
                Entry(p).kind \in {"directory", "symlink", "file"}
    /\ \A i \in DOMAIN acc[p].warnings :
          acc[p].warnings[i].kind = "readdir" =>
             acc[p].warnings[i].path \in FailedReads(p)
    /\ Walked(p) =>
         \A q \in FailedReads(p) :
            /\ \E n \in DirectoryNodes(p) :
                  /\ DirectoryOf(n.node) = q
                  /\ n.node.truncated
                  /\ "children" \notin DOMAIN n.node
            /\ Count(acc[p].warnings, ReadWarning(q)) = 1
            /\ q # <<>> =>
                  \E n \in ListedNodes(p) :
                     /\ DirectoryOf(n.node) = SubSeq(q, 1, Len(q) - 1)
                     /\ Len(n.node.children) =
                          Min(Cap(p), Cardinality(NonIgnored(DirectoryOf(n.node), p)))
    /\ pc[p] = "done" =>
         /\ result[p].status = "returned"
         /\ result[p].warnings = acc[p].warnings
         /\ artifacts[structureFilePath(args[p])].warnings = acc[p].warnings

C8_Witness ==
  \E p \in Procs :
    /\ pc[p] = "done"
    /\ \E q \in FailedReads(p) :
         /\ q # <<>>
         /\ \E n \in ListedNodes(p) :
               /\ DirectoryOf(n.node) = SubSeq(q, 1, Len(q) - 1)
               /\ n.node.children[Len(n.node.children)].path # q
    /\ Count(artifacts[structureFilePath(args[p])].warnings,
             ReadWarning(CHOOSE q \in FailedReads(p) : TRUE)) = 1

ManifestExists == <<"package.json">> \in DOMAIN fs
ManifestBroken == ManifestExists /\ packageFile.state \in {"malformed", "unreadable"}
NoLockFile == \A i \in DOMAIN LockFiles : <<LockFiles[i].file>> \notin DOMAIN fs

\* C9: with a package.json that is present but cannot be read or parsed the
\* scan still returns and writes the artifact, exactly one manifest warning
\* is recorded, dependencies, devDependencies and scripts are empty, and
\* name, description and declared package manager count as absent (the
\* project name falls back to the root's base name); with no package.json no
\* manifest warning is recorded, and no warning at all when every directory
\* could be read.
C9_BrokenManifest ==
  \A p \in Procs :
    /\ (ManifestBroken /\ pc[p] \in {"assemble", "persist", "write", "done"}) =>
          /\ Count(acc[p].warnings, ManifestWarning) = 1
          /\ packageJson[p] = NoPackageJson
    /\ (ManifestBroken /\ pc[p] = "done") =>
          /\ result[p].status = "returned"
          /\ artifacts[structureFilePath(args[p])].generatedAt = result[p].generatedAt
          /\ Count(artifacts[structureFilePath(args[p])].warnings, ManifestWarning) = 1
          /\ result[p].overview.dependencies = <<>>
          /\ result[p].overview.devDependencies = <<>>
          /\ result[p].overview.scripts = <<>>
          /\ result[p].overview.projectName = "project"
          /\ result[p].overview.description = args[p].projectDescription
          /\ NoLockFile => result[p].overview.packageManager = Undefined
    /\ ~ManifestExists =>
          /\ Count(acc[p].warnings, ManifestWarning) = 0
          /\ FailedReads(p) = {} => acc[p].warnings = <<>>

C9_Witness ==
  \E p \in Procs :
    /\ pc[p] = "done"
    /\ ManifestBroken
    /\ packageFile.state = "malformed"
    /\ artifacts[structureFilePath(args[p])].warnings = <<ManifestWarning>>

NoDuplicates(seq) == \A i, j \in DOMAIN seq : seq[i] = seq[j] => i = j

\* the names the parsed manifest declares as dependency or devDependency
Declared(p) ==
  LET members == field(packageJson[p], "dependencies", <<>>) \o
                 field(packageJson[p], "devDependencies", <<>>)
  IN  {members[i].name : i \in DOMAIN members}

LowerCased(name) == Join(toLowerCase(Spelling[name]))

ExpectedLabels(p) ==
  {result[p].overview.languages[i].language :
      i \in DOMAIN result[p].overview.languages}
  \cup (IF Declared(p) # {} THEN {"Node.js"} ELSE {})
  \cup {KNOWN_TECH_LABELS[LowerCased(name)] :
          name \in {d \in Declared(p) : LowerCased(d) \in DOMAIN KNOWN_TECH_LABELS}}
  \cup ({trim(args[p].manualTechStack[i]) : i \in DOMAIN args[p].manualTechStack}
        \ {""})

\* C10: the tech stack of a finished scan has no duplicates and is, as a
\* set, the labels of the language list, "Node.js" when a dependency or
\* devDependency is declared, the label of each declared name whose lower
\* case is in KNOWN_TECH_LABELS (other names adding nothing), and the
\* trimmed non-empty manual labels.
C10_TechStack ==
  \A p \in Procs : pc[p] = "done" =>
    /\ NoDuplicates(result[p].overview.techStack)
    /\ Range(result[p].overview.techStack) = ExpectedLabels(p)
    /\ artifacts[structureFilePath(args[p])].techStack = result[p].overview.techStack

(***************************************************************************)
(* Properties of the language list and of the classified directories.      *)
(***************************************************************************)
\* what the extension histogram says of a language: the files counted under
\* the extensions EXTENSION_LANGUAGE_MAP gives to it
FilesOf(p, language) ==
  SumCounts(SelectSeq(stats[p].extensions, LAMBDA e :
     /\ e.extension \in DOMAIN EXTENSION_LANGUAGE_MAP
     /\ EXTENSION_LANGUAGE_MAP[e.extension] = language))

Detected(p) ==
  {EXTENSION_LANGUAGE_MAP[stats[p].extensions[i].extension] :
     i \in {j \in DOMAIN stats[p].extensions :
              stats[p].extensions[j].extension \in DOMAIN EXTENSION_LANGUAGE_MAP}}

ManualLanguages(p) ==
  {trim(args[p].manualLanguages[i]) : i \in DOMAIN args[p].manualLanguages} \ {""}

LanguageNames(languages) == [i \in DOMAIN languages |-> languages[i].language]

\* C11: the language list of a finished scan holds every detected language
\* with its file count, every trimmed non-empty manual label that was not
\* detected with count 0, nothing else, and no name twice; a manual label
\* equal to a detected language leaves that language's count as it was.
C11_ManualLanguages ==
  \A p \in Procs : pc[p] = "done" =>
    LET languages == result[p].overview.languages
    IN  /\ NoDuplicates(LanguageNames(languages))
        /\ Range(languages) =
             {[language |-> l, count |-> FilesOf(p, l)] : l \in Detected(p)}
             \cup {[language |-> l, count |-> 0] :
                     l \in ManualLanguages(p) \ Detected(p)}
        /\ artifacts[structureFilePath(args[p])].languages = languages

C11_Witness ==
  \E p \in Procs :
    /\ pc[p] = "done"
    /\ ManualLanguages(p) \cap Detected(p) # {}
    /\ ManualLanguages(p) \ Detected(p) # {}
    /\ \E l \in ManualLanguages(p) \cap Detected(p) :
          [language |-> l, count |-> FilesOf(p, l)] \in Range(result[p].overview.languages)
    /\ Len(args[p].manualLanguages) = 2

\* the file system is the given tree, with at most the output directory added
Scanned(files) ==
  /\ DOMAIN files \subseteq DOMAIN fs
  /\ \A q \in DOMAIN fs :
        IF q \in DOMAIN files THEN fs[q] = files[q]
        ELSE q[1] = DefaultOutput.outputDirectory[1]

ExampleFiles == <<"package.json">> :> "file" @@ ShapeButton

\* the example project scanned with every option at its default
ExampleScan(p) ==
  /\ pc[p] = "done"
  /\ Scanned(ExampleFiles) /\ unreadable = {} /\ packageFile = PkgReactOnly
  /\ args[p].maxDepth = DefaultMaxDepth
  /\ args[p].maxEntriesPerDirectory = DefaultMaxEntries
  /\ ~args[p].includeHidden /\ args[p].ignore = {}
  /\ args[p].manualTechStack = <<>> /\ args[p].manualLanguages = <<>>

ExampleRest(p) ==
  /\ {"React", "Node.js"} \subseteq Range(result[p].overview.techStack)
  /\ result[p].overview.componentDirectories = <<>>
  /\ "package.json" \in Range(result[p].overview.notableFiles)
  /\ result[p].warnings = <<>>

\* C12 as stated: the example project yields the single language entry
\* TypeScript with count 2.
C12_AsStated ==
  \A p \in Procs : ExampleScan(p) =>
    /\ result[p].overview.languages = << [language |-> "TypeScript", count |-> 2] >>
    /\ ExampleRest(p)

\* C12: the example project yields the languages TypeScript with count 2 and
\* then JSON with count 1 (package.json is a scanned file), a tech stack with
\* React and Node.js, no component directory, package.json among the notable
\* files and no warning.
C12_Example ==
  \A p \in Procs : ExampleScan(p) =>
    /\ result[p].overview.languages =
         << [language |-> "TypeScript", count |-> 2],
            [language |-> "JSON", count |-> 1] >>
    /\ ExampleRest(p)

C12_Witness ==
  \E p \in Procs :
    /\ ExampleScan(p)
    /\ stats[p].totalFiles = 3
    /\ \E n \in NodesOf(p) : n.node.name = "Button.component.tsx"

\* the paths of the directory entries of the tree (the root is no entry)
\* whose lower-cased name contains the keyword
Tagged(p, keyword) ==
  {n.node.path : n \in {m \in NodesOf(p) :
      /\ m.depth > 0
      /\ m.node.type = "directory"
      /\ includes(toLowerCase(Spelling[m.node.name]), keyword)}}

ComponentTagged(p) == Tagged(p, <<"c","o","m","p","o","n","e","n","t">>)
EntityTagged(p) == Tagged(p, <<"e","n","t","i","t","y">>) \cup
                   Tagged(p, <<"e","n","t","i","t","i","e","s">>)

PathBefore(a, b) == codeUnitCompareChars(pathChars(a), pathChars(b)) < 0

\* list holds the first min(limit, |set|) members of set in ascending order
FirstOf(list, set, limit) ==
  /\ Len(list) = Min(limit, Cardinality(set))
  /\ Range(list) \subseteq set
  /\ \A i, j \in DOMAIN list : i < j => PathBefore(list[i], list[j])
  /\ \A q \in set \ Range(list) : \A i \in DOMAIN list : PathBefore(list[i], q)

\* C13 as stated: the two lists are exactly the sets of tagged directories.
C13_AsStated ==
  \A p \in Procs : pc[p] = "done" =>
    /\ NoDuplicates(result[p].overview.componentDirectories)
    /\ NoDuplicates(result[p].overview.entityDirectories)
    /\ Range(result[p].overview.componentDirectories) = ComponentTagged(p)
    /\ Range(result[p].overview.entityDirectories) = EntityTagged(p)

\* C13: componentDirectories (entityDirectories) of a finished scan, in the
\* response and in the document, holds without duplicates the first 20, in
\* ascending code-unit order of the path, of the relative paths of the
\* directory entries of the tree whose lower-cased name contains "component"
\* ("entity" or "entities"); a directory matching both is in both, and no
\* file or symlink is in either.
C13_ClassifiedDirectories ==
  \A p \in Procs : pc[p] = "done" =>
    LET document == artifacts[structureFilePath(args[p])]
    IN  /\ FirstOf(result[p].overview.componentDirectories, ComponentTagged(p), 20)
        /\ FirstOf(result[p].overview.entityDirectories, EntityTagged(p), 20)
        /\ document.componentDirectories = result[p].overview.componentDirectories
        /\ document.entityDirectories = result[p].overview.entityDirectories

C13_Witness ==
  \E p \in Procs :
    /\ pc[p] = "done"
    /\ Cardinality(ComponentTagged(p)) > 20
    /\ Len(result[p].overview.componentDirectories) = 20
    /\ <<"entity-components">> \in Range(result[p].overview.componentDirectories)
                                   \cap Range(result[p].overview.entityDirectories)

(***************************************************************************)
(* Properties of the output file.                                          *)
(***************************************************************************)
Finished == /\ \A p \in Procs : pc[p] \in {"done", "off"}
            /\ \E p \in Procs : pc[p] = "done"

\* C14: once every scan has returned, the output file holds exactly the
\* document one of them wrote, the one written last, and nothing left over
\* from another write.
C14_LastWriteWins ==
  Finished =>
    LET file == structureFilePath(DefaultOutput)
    IN  /\ \E p \in Procs : pc[p] = "done" /\ artifacts[file] = pending[p]
        /\ fileLength[file] = serialisedLength(artifacts[file])

(***************************************************************************)
(* Properties of the reader of the project base.                           *)
(***************************************************************************)
ArtifactPath == structureFilePath(DefaultOutput)
IsDocumentText(content) == "exists" \notin DOMAIN content
\* the file holds one whole document and nothing after it
Intact(file) ==
  /\ IsDocumentText(artifacts[file])
  /\ fileLength[file] = serialisedLength(artifacts[file])
OnlyStrings(labels) ==
  \A i \in DOMAIN labels :
     \/ labels[i] \in Names
     \/ labels[i] \in {"Node.js", "React", "Zod", "Docker", "Rust"}
     \/ labels[i] \in {EXTENSION_LANGUAGE_MAP[e] : e \in DOMAIN EXTENSION_LANGUAGE_MAP}

\* C15: whenever loadProjectBase runs: with no file at the path it throws an
\* error that names the path and tells to run projectOverview; with a file
\* that cannot be read or holds no JSON document (empty, malformed, null, or
\* a document followed by the rest of another) it throws; with a document
\* lacking rootDirectory it throws at validation; with a whole document that
\* has rootDirectory and a directory node with an empty children array it
\* returns that base; and whatever it returns has rootDirectory, only
\* members of the schema and only strings in techStack.
C15_LoadProjectBase ==
  [][ LoadProjectBase =>
        LET content == artifacts[ArtifactPath]
        IN  /\ content = NoDocument =>
                 /\ loaded'.status = "threw"
                 /\ loaded'.error = "not found, run projectOverview"
                 /\ loaded'.path = ArtifactPath
            /\ (~IsDocumentText(content) \/ ~Intact(ArtifactPath)) =>
                 loaded'.status = "threw"
            /\ (IsDocumentText(content) /\ "rootDirectory" \notin DOMAIN content) =>
                 loaded'.status = "threw"
            /\ (content = EmptyDirectoryDocument /\ Intact(ArtifactPath)) =>
                 /\ loaded'.status = "returned"
                 /\ loaded'.base = EmptyDirectoryDocument
            /\ loaded'.status = "returned" =>
                 /\ "rootDirectory" \in DOMAIN loaded'.base
                 /\ DOMAIN loaded'.base \subseteq projectBaseKeys
                 /\ "techStack" \in DOMAIN loaded'.base =>
                       OnlyStrings(loaded'.base.techStack)
                 /\ \A key \in {"projectName", "description", "packageManager"}
                                 \cap DOMAIN loaded'.base :
                       loaded'.base[key] # Undefined
                 /\ loaded'.path = ArtifactPath ]_vars

C15_Witness ==
  /\ loaded.status = "returned"
  /\ loaded.base.rootDirectory = "/elsewhere"
  /\ "tree" \in DOMAIN loaded.base
  /\ loaded.base.tree.children = <<>>

SectionOrder ==
  << "Project base summary", "Tech stack", "Languages", "Primary directories",
     "Component directories", "Entity directories", "Notable files",
     "Key scripts", "Package manager", "Structure warnings" >>

\* the members of the base a section is made from
SectionFields ==
  [ h \in Range(SectionOrder) |->
      CASE h = "Project base summary" -> {"projectName", "description"}
        [] h = "Tech stack" -> {"techStack"}
        [] h = "Languages" -> {"languages"}
        [] h = "Primary directories" -> {"primaryDirectories"}
        [] h = "Component directories" -> {"componentDirectories"}
        [] h = "Entity directories" -> {"entityDirectories"}
        [] h = "Notable files" -> {"notableFiles"}
        [] h = "Key scripts" -> {"scripts"}
        [] h = "Package manager" -> {"packageManager"}
        [] h = "Structure warnings" -> {"warnings"} ]

TextFields == {"projectName", "description", "packageManager"}

\* the member is there and is neither the empty string nor the empty list
NonEmpty(base, key) ==
  /\ key \in DOMAIN base
  /\ IF key \in TextFields THEN base[key] # "" ELSE base[key] # <<>>

PositionOf(heading) == CHOOSE i \in DOMAIN SectionOrder : SectionOrder[i] = heading

IsPrefix(q, r) == Len(q) <= Len(r) /\ SubSeq(r, 1, Len(q)) = q

\* the ignore decision, from the arguments of the scan
Excluded(p, q) ==
  LET name == q[Len(q)]
  IN  \/ ~args[p].includeHidden /\ Head(Spelling[name]) = "."
      \/ name \in DEFAULT_IGNORE
      \/ <<name>> \in args[p].ignore
      \/ q \in args[p].ignore

\* nothing of the walk of p lies at or beneath q
Untouched(p, q) ==
  /\ \A n \in NodesOf(p) : ~IsPrefix(q, DirectoryOf(n.node))
  /\ \A r \in reads[p] : ~IsPrefix(q, r)
  /\ \A r \in acc[p].componentDirectories \cup acc[p].entityDirectories :
        ~IsPrefix(q, r)
  /\ \A i \in DOMAIN acc[p].warnings : ~IsPrefix(q, acc[p].warnings[i].path)

C18_HiddenIncluded ==
  \A p \in Procs : (Walked(p) /\ args[p].includeHidden) =>
    \A n \in ListedNodes(p) :
      LET entries == ChildPaths(DirectoryOf(n.node))
      IN  Cardinality(entries) <= Cap(p) =>
            \A q \in entries :
               ( /\ Head(Spelling[q[Len(q)]]) = "."
                 /\ q[Len(q)] # DefaultOutput.outputDirectory[1]
                 /\ <<q[Len(q)]>> \notin args[p].ignore
                 /\ q \notin args[p].ignore ) =>
                  \E m \in NodesOf(p) : m.node.path = q

ThroughLink(q) ==
  \E k \in 1..(Len(q) - 1) :
     SubSeq(q, 1, k) \in DOMAIN fs /\ fs[SubSeq(q, 1, k)] = "symlink"

\* C19: in the tree of a walk no file or symlink node has a children member;
\* an entry is a node of type symlink exactly when it is a symbolic link,
\* each counted once in totalFiles like a file, and nothing that shows
\* beneath a link is read or has a node.
C19_SymlinksNotFollowed ==
  \A p \in Procs : Walked(p) =>
    /\ \A n \in NodesOf(p) :
          /\ n.node.type \in {"file", "symlink"} => "children" \notin DOMAIN n.node
          /\ n.depth > 0 =>
                /\ n.node.path \in DOMAIN fs
                /\ n.node.type = fs[n.node.path]
                /\ ~ThroughLink(n.node.path)
    /\ \A q \in reads[p] : ~ThroughLink(q) /\ (q \in DOMAIN fs => fs[q] # "symlink")
    /\ stats[p].totalFiles =
         Cardinality({n \in NodesOf(p) : n.node.type \in {"file", "symlink"}})

C19_Witness ==
  \E p \in Procs :
    /\ Walked(p)
    /\ \E n \in NodesOf(p) : n.node.type = "symlink" /\ n.node.path = <<"latest">>
    /\ <<"latest", "index.ts">> \in DOMAIN fs
    /\ \E n \in NodesOf(p) : n.node.type = "file"
    /\ stats[p].totalFiles >= 3

\* q or a directory above it is dropped by the ignore decision
IgnoredAbove(p, q) == \E k \in 1..Len(q) : Excluded(p, SubSeq(q, 1, k))

HasNode(p, q) == \E n \in NodesOf(p) : n.depth > 0 /\ n.node.path = q

\* the directory nodes of the tree above q
AncestorsInTree(p, q) ==
  {n \in DirectoryNodes(p) :
     Len(DirectoryOf(n.node)) < Len(q) /\ IsPrefix(DirectoryOf(n.node), q)}

NearestAncestor(p, q) ==
  CHOOSE n \in AncestorsInTree(p, q) :
    \A m \in AncestorsInTree(p, q) :
       Len(DirectoryOf(m.node)) <= Len(DirectoryOf(n.node))

\* the entries beneath the root that the cap, the depth limit or a failed
\* read kept out of the tree: no ignore rule drops them or a directory above
\* them, and they do not lie behind a symbolic link
CutEntries(p) ==
  {q \in DOMAIN fs :
     /\ q # <<>>
     /\ ~IgnoredAbove(p, q)
     /\ ~ThroughLink(q)
     /\ ~HasNode(p, q)}

\* C20: after a walk, every entry beneath the root that no ignore rule drops
\* and that has no node in the tree has a nearest ancestor directory in the
\* tree, and that node carries truncated = true.
C20_TruncationExplicit ==
  \A p \in Procs : Walked(p) =>
    \A q \in CutEntries(p) :
       /\ AncestorsInTree(p, q) # {}
       /\ "truncated" \in DOMAIN NearestAncestor(p, q).node
       /\ NearestAncestor(p, q).node.truncated = TRUE

\* one walk in which the cap cut an entry of a listed directory, and the
\* depth limit or a failed read cut an entry beneath an unlisted one
C20_Witness ==
  \E p \in Procs :
    /\ Walked(p)
    /\ \E q \in CutEntries(p) : NearestAncestor(p, q) \in ListedNodes(p)
    /\ \E q \in CutEntries(p) : NearestAncestor(p, q) \notin ListedNodes(p)

(***************************************************************************)
(* Properties of the truncation mark, the package manager, environment     *)
(* files, the output directory and the counters.                           *)
(***************************************************************************)
ChildDirectories(node) ==
  {i \in DOMAIN ChildrenOf(node) : ChildrenOf(node)[i].type = "directory"}

Overflows(p, n) == Cardinality(NonIgnored(DirectoryOf(n.node), p)) > Cap(p)

AtDepthLimit(p, n) == n.depth + 1 >= args[p].maxDepth

\* C21: a listed directory node has truncated = true exactly when its kept
\* entries exceeded the cap, or it has a child directory and its children sit
\* at the depth limit, those child directories then being leaves marked
\* truncated; a listed directory whose children are below the limit is marked
\* for the cap only.
C21_TruncatedFlag ==
  \A p \in Procs : Walked(p) =>
    \A n \in ListedNodes(p) :
       /\ n.node.truncated <=>
            \/ Overflows(p, n)
            \/ ChildDirectories(n.node) # {} /\ AtDepthLimit(p, n)
       /\ AtDepthLimit(p, n) =>
            \A i \in ChildDirectories(n.node) :
               /\ "children" \notin DOMAIN n.node.children[i]
               /\ n.node.children[i].truncated
       /\ ~AtDepthLimit(p, n) => (n.node.truncated <=> Overflows(p, n))

\* a root kept unmarked two levels above a leaf cut by the depth limit, whose
\* parent is marked for the depth alone
C21_Witness ==
  \E p \in Procs :
    /\ Walked(p)
    /\ "children" \in DOMAIN tree[p] /\ ~tree[p].truncated
    /\ \E n \in ListedNodes(p) :
         /\ n.depth = 1 /\ n.node.truncated /\ ~Overflows(p, n)
         /\ \E i \in ChildDirectories(n.node) :
              DirectoryOf(n.node.children[i]) \notin unreadable

Assembled(p) == pc[p] \in {"persist", "write", "done"}

\* the manifest declares a package manager: it parsed, and its
\* packageManager member is a string that is not empty
Declares ==
  /\ packageFile.state = "json"
  /\ "packageManager" \in DOMAIN packageFile.value
  /\ packageFile.value.packageManager \notin {"", JsonNumber}

InRoot(name) == <<name>> \in DOMAIN fs

\* C23: the packageManager of the overview is the manifest's declared
\* packageManager when that is a non-empty string; otherwise pnpm, yarn, npm
\* or bun after the first of pnpm-lock.yaml, yarn.lock, package-lock.json and
\* bun.lockb that the root holds; otherwise it is absent.  A manifest that is
\* missing or does not parse declares nothing.
C23_PackageManager ==
  \A p \in Procs : Assembled(p) =>
    overview[p].packageManager =
      IF Declares THEN packageFile.value.packageManager
      ELSE IF InRoot("pnpm-lock.yaml") THEN "pnpm"
      ELSE IF InRoot("yarn.lock") THEN "yarn"
      ELSE IF InRoot("package-lock.json") THEN "npm"
      ELSE IF InRoot("bun.lockb") THEN "bun"
      ELSE Undefined

\* a manifest that does not parse beside yarn.lock and bun.lockb
C23_Witness ==
  \E p \in Procs :
    /\ Assembled(p)
    /\ packageFile.state = "malformed"
    /\ InRoot("yarn.lock") /\ InRoot("bun.lockb") /\ ~InRoot("pnpm-lock.yaml")
    /\ overview[p].packageManager = "yarn"

FileNodes(p) == {n \in NodesOf(p) : n.node.type = "file"}

EnvPrefix == <<".", "e", "n", "v">>
BeginsWithEnv(name) == startsWith(Spelling[name], EnvPrefix)
\* the name has no "." after its first character
NoFurtherDot(name) == \A i \in 2..Len(Spelling[name]) : Spelling[name][i] # "."

CountOf(p, key) ==
  SumCounts(SelectSeq(stats[p].extensions, LAMBDA e : e.extension = key))

ConfigurationCount(p) ==
  SumCounts(SelectSeq(overview[p].languages, LAMBDA l : l.language = "Configuration"))

\* C24 as the claim words it: every file node whose name begins with ".env",
\* .env.local included, carries the extension "env".
C24_AsStated ==
  \A p \in Procs : Walked(p) =>
    \A n \in FileNodes(p) :
       BeginsWithEnv(n.node.name) =>
          "extension" \in DOMAIN n.node /\ n.node.extension = "env"

\* C24: every kept plain file whose name begins with ".env" and has no
\* further "." (.env, .envrc) is recorded with extension "env" and counted
\* under the ".env" key of the histogram, and these files count towards the
\* Configuration language; a name with a further "." (.env.local) is recorded
\* under the suffix path.extname gives it, "local".
C24_EnvFiles ==
  \A p \in Procs : Walked(p) =>
    LET envNodes == {n \in FileNodes(p) :
                       BeginsWithEnv(n.node.name) /\ NoFurtherDot(n.node.name)}
    IN  /\ \A n \in envNodes :
              "extension" \in DOMAIN n.node /\ n.node.extension = "env"
        /\ CountOf(p, ".env") = Cardinality(envNodes)
        /\ Assembled(p) => ConfigurationCount(p) = Cardinality(envNodes)
        /\ \A n \in FileNodes(p) :
              n.node.name = ".env.local" => n.node.extension = "local"

\* .env in two directories, .envrc and .env.local all kept
C24_Witness ==
  \E p \in Procs :
    /\ Assembled(p)
    /\ CountOf(p, ".env") = 3
    /\ ConfigurationCount(p) = 3
    /\ \E n \in FileNodes(p) : n.node.name = ".envrc" /\ n.node.extension = "env"
    /\ \E n \in FileNodes(p) : n.node.name = ".env.local"

\* the root is the working directory, so that outputDirectory lies in the
\* scanned tree, and the output file of an earlier scan is there
HoldsPriorOutput(p) ==
  /\ resolveAbsolutePath(args[p].rootDirectory) = Cwd
  /\ pc[p] \in {"manifest", "assemble", "persist"}
  /\ structureFilePath(args[p]) \in DOMAIN fs
  /\ artifacts[structureFilePath(args[p])] = StaleDocument

\* C25: a scan of a root that holds the output file of an earlier scan with
\* the same outputDirectory and structureFileName has no node for that file,
\* counts no file for it, and when outputDirectory is not the root itself has
\* neither listed that directory nor a node for it.
C25_OwnOutput ==
  \A p \in Procs : HoldsPriorOutput(p) =>
    /\ \A n \in NodesOf(p) : n.depth > 0 => n.node.path # structureFilePath(args[p])
    /\ stats[p].totalFiles =
         Cardinality({q \in DOMAIN fs : fs[q] = "file"} \ {structureFilePath(args[p])})
    /\ args[p].outputDirectory # <<>> => Untouched(p, args[p].outputDirectory)

\* the same under the default outputDirectory, whatever includeHidden is
C25_DefaultOutput ==
  \A p \in Procs :
    (HoldsPriorOutput(p) /\ args[p].outputDirectory = DefaultOutput.outputDirectory)
      => /\ Untouched(p, args[p].outputDirectory)
         /\ stats[p].totalFiles = 2

\* the directory nodes no listing was read for: cut by the depth limit, or
\* their read failed
LeafDirectories(p) == DirectoryNodes(p) \ ListedNodes(p)

\* C26: when the walk has returned, stats.totalDirectories is the number of
\* directory nodes of the tree, the root, the listed directories, the leaves
\* of the depth limit and the directories whose read failed each once, and
\* stats.totalFiles is the number of file nodes plus symlink nodes.
C26_Counters ==
  \A p \in Procs : Walked(p) =>
    /\ stats[p].totalDirectories = Cardinality(DirectoryNodes(p))
    /\ stats[p].totalDirectories =
         Cardinality({DirectoryOf(n.node) : n \in DirectoryNodes(p)})
    /\ stats[p].totalFiles = Cardinality(FileNodes(p)) + Cardinality(Symlinks(p))

\* a tree with a listed directory, a leaf of the depth limit, a directory
\* whose read failed and a file
C26_Witness ==
  \E p \in Procs :
    /\ Walked(p)
    /\ \E n \in ListedNodes(p) : n.depth > 0
    /\ \E n \in LeafDirectories(p) : DirectoryOf(n.node) \in unreadable
    /\ \E n \in LeafDirectories(p) : DirectoryOf(n.node) \notin unreadable
    /\ FileNodes(p) # {}
    /\ stats[p].totalDirectories >= 4

(***************************************************************************)
(* The round trip of the artifact through its reader.                      *)
(***************************************************************************)
\* the scan of p has returned and its output file is the one the reader
\* opens
WroteArtifact(p) ==
  /\ pc[p] = "done"
  /\ structureFilePath(args[p]) = ArtifactPath

RoundTripFields == {"rootDirectory", "languages", "techStack", "tree", "warnings"}

\* C27: whenever loadProjectBase runs on the output directory and file name of
\* a scan that has returned, it returns, and the rootDirectory, languages,
\* techStack, tree and warnings of the base are those of the document the
\* scan wrote, whatever the manifest of the root held.
C27_RoundTrip ==
  [][ (LoadProjectBase /\ \E p \in Procs : WroteArtifact(p)) =>
        /\ loaded'.status = "returned"
        /\ \A p \in Procs : WroteArtifact(p) =>
              \A key \in RoundTripFields :
                 /\ key \in DOMAIN loaded'.base
                 /\ loaded'.base[key] = pending[p][key] ]_vars

\* the same for the manifests whose name, description and scripts are strings
\* or missing and whose dependencies are no members of Object.prototype
C27_PlainManifests ==
  [][ ( /\ LoadProjectBase
        /\ \E p \in Procs : WroteArtifact(p)
        /\ packageFile \notin {PkgNumberName, PkgNumberScript, PkgConstructor} ) =>
        /\ loaded'.status = "returned"
        /\ \A p \in Procs : WroteArtifact(p) =>
              \A key \in RoundTripFields :
                 /\ key \in DOMAIN loaded'.base
                 /\ loaded'.base[key] = pending[p][key] ]_vars

(***************************************************************************)
(* C22: createTodoPlan loads and validates the project base before it      *)
(* calls the language model, writes a session file or touches state.json;  *)
(* when the reader throws, execute fails with the reader's error after one *)
(* load, and has written nothing into the session directory nor state.json.*)
(***************************************************************************)
ReaderOutcome ==
  loadProjectBase(DefaultOutput.outputDirectory, DefaultOutput.structureFileName)
SessionFilesOf(o) == { file \in disk.files : file[1][2] = o }
ActedOn(o) ==
  \/ orch[o].modelCalls > 0
  \/ orch[o].pc \in DOMAIN NextStage
  \/ SessionFilesOf(o) # {}
  \/ orch[o].written > 0
  \/ o \in disk.writers
  \/ \E i \in DOMAIN disk.history : disk.history[i].prompt = o
  \/ orch[o].pc \in {"files", "read", "open", "write", "manifest", "done"}
C22_BaseFirst ==
  \A o \in Procs :
     /\ ActedOn(o) =>
          /\ orch[o].loads = 1
          /\ orch[o].base.status = "returned"
          /\ ReaderOutcome.status = "returned"
          /\ orch[o].base.baseContext = buildProjectBaseContext(ReaderOutcome.base)
     /\ (orch[o].loads > 0 /\ ReaderOutcome.status = "threw") =>
          /\ orch[o].pc = "failed"
          /\ orch[o].outcome = ReaderOutcome
          /\ orch[o].loads = 1
          /\ ~ActedOn(o)
     /\ (\A q \in Procs : orch[q].loads > 0) /\ ReaderOutcome.status = "threw" =>
          /\ disk.files = {}
          /\ disk.state = NoDocument

\* one invocation failed on an invalid project base while state.json is
\* untouched, another scenario's invocation has gone on to the model
C22_Witness ==
  /\ orch[1].pc = "failed"
  /\ orch[1].outcome.error = "validation"
  /\ orch[2].pc = "failed"
  /\ disk = EmptyDisk

C22_WitnessLoaded ==
  /\ orch[1].pc = "done"
  /\ orch[1].base.status = "returned"
  /\ orch[2].modelCalls > 0

(***************************************************************************)
(* C28: after any sequence of updateStateManifest calls made one after the *)
(* other, state.json holds one entry for every sessionId passed so far and *)
(* no other: the record of the latest call for that sessionId; the entries *)
(* of the other sessionIds are the ones stored before, and the list        *)
(* descends by createdAt.                                                  *)
(***************************************************************************)
LatestRecord(sessionId) ==
  LET calls == { i \in DOMAIN disk.history :
                   disk.history[i].sessionId = sessionId }
      last == CHOOSE i \in calls : \A j \in calls : j <= i
  IN  disk.history[last]
StoredSessions == disk.state.sessions
Settled == \A o \in Procs : orch[o].pc \notin {"read", "open", "write"}
C28_OneEntryPerSession ==
  (Settled /\ disk.history # <<>>) =>
     /\ "sessions" \in DOMAIN disk.state
     /\ disk.stateLength = Len(StoredSessions)
     /\ \A i, j \in DOMAIN StoredSessions :
           StoredSessions[i].sessionId = StoredSessions[j].sessionId => i = j
     /\ { StoredSessions[i] : i \in DOMAIN StoredSessions }
          = { LatestRecord(disk.history[i].sessionId) : i \in DOMAIN disk.history }
     /\ \A i \in 1..(Len(StoredSessions) - 1) :
           StoredSessions[i].createdAt >= StoredSessions[i + 1].createdAt

\* three calls, the third replacing the entry of the first while the entry of
\* the other session, created later, stays in front
C28_Witness ==
  /\ Settled
  /\ Len(disk.history) = 3
  /\ disk.history[1].sessionId = disk.history[3].sessionId
  /\ disk.history[1] # disk.history[3]
  /\ disk.history[2].sessionId # disk.history[1].sessionId
  /\ Len(StoredSessions) = 2
  /\ StoredSessions[1] = disk.history[2]
  /\ StoredSessions[2] = disk.history[3]

(***************************************************************************)
(* C29: when two orchestrations with distinct sessionIds have both         *)
(* completed updateStateManifest on the same state.json, in whatever order *)
(* their reads and writes took place, the manifest holds an entry for each *)
(* of the two sessions.                                                    *)
(***************************************************************************)
Completed(o) == orch[o].pc \in {"manifest", "done"}
C29_NoSessionLost ==
  (\A o \in Procs : Completed(o)) =>
     /\ "sessions" \in DOMAIN disk.state
     /\ \A o \in Procs :
           \E i \in DOMAIN StoredSessions :
              StoredSessions[i].sessionId = orch[o].record.sessionId

(***************************************************************************)
(* C30: a call of fetchJson or fetchText sends at most 3 requests and      *)
(* ends: it returns the body of the first request that succeeds, or throws *)
(* a Context7Error.  A request that fails with another error is followed,  *)
(* after the delay, by the next one until the third; a response whose      *)
(* status is not OK ends the call on that attempt.                         *)
(***************************************************************************)
Ended(h) == http[h].pc \in {"returned", "threw"}
Received(h) == http[h].responses
FailedOtherwise(h, i) ==
  /\ attemptOutcome(h, Received(h)[i]).status = "threw"
  /\ attemptOutcome(h, Received(h)[i]).error # Context7Error
NotOk(h, i) == ~Received(h)[i].rejected /\ ~Received(h)[i].ok
C30_Requests ==
  \A h \in Helpers :
     /\ http[h].requests <= 3
     /\ Len(Received(h)) <= http[h].requests
     /\ http[h].requests <= Len(Received(h)) + 1
     /\ http[h].pc = "threw" => http[h].outcome.error = Context7Error
     /\ http[h].pc = "returned" =>
           /\ Received(h) # <<>>
           /\ attemptOutcome(h, Received(h)[Len(Received(h))]) = http[h].outcome
           /\ http[h].outcome.status = "returned"
     /\ \A i \in DOMAIN Received(h) :
           /\ i < Len(Received(h)) => FailedOtherwise(h, i)
           /\ NotOk(h, i) => i = Len(Received(h)) /\ http[h].pc = "threw"
           /\ (FailedOtherwise(h, i) /\ i < 3 /\ i = Len(Received(h))) =>
                 /\ http[h].pc \in {"backoff", "request", "await"}
                 /\ http[h].requests = IF http[h].pc = "await" THEN i + 1 ELSE i
           /\ (FailedOtherwise(h, i) /\ i = 3) => http[h].pc = "threw"
C30_FetchEnds ==
  /\ []C30_Requests
  /\ \A h \in Helpers : (http[h].pc = "request") ~> Ended(h)

\* fetchJson returns the third response's body after a rejected request and
\* a response whose body is no JSON
C30_Witness ==
  /\ http["fetchJson"].pc = "returned"
  /\ http["fetchJson"].requests = 3
  /\ Received("fetchJson")[1].rejected
  /\ Received("fetchJson")[2].ok
  /\ Received("fetchJson")[2].body = "<html>"
  /\ http["fetchJson"].outcome.value = JsonValue
====
